---- MODULE Spec2Model ----
(***************************************************************************)
(* Dub Siren: the real-time audio engine (AudioEngine and its DSP leaf     *)
(* components), the file player and the audio output thread, as state      *)
(* machines translated from the C++ sources.                               *)
(*                                                                         *)
(* Numbers.  The C++ code computes in float.  Here every float quantity is *)
(* an integer count of thousandths (1.0 is 1000, 0.95 is 950, 20 Hz is     *)
(* 20000, 5 s is 5000).                                                    *)
(*                                                                         *)
(* Specifications.                                                         *)
(*   SpecParams  the parameter setters, called with arbitrary inputs       *)
(*   SpecOutput  main's start-up, AudioOutput's start()/stop() and the     *)
(*               audio loop                                                *)
(*   SpecRT      trigger()/release() on two control threads against the    *)
(*               audio thread's process(), one load or store per step      *)
(*   SpecSetters parameter setters on a control thread against process()   *)
(*   SpecPlayer  the file-playback mode switch and the file player against *)
(*               process(), both of its paths                              *)
(*   SpecVoice   the sample arithmetic of process()'s last stages: the     *)
(*               reverb limiter, the DC blocker, the volume and the clamp  *)
(*   SpecSiren   the voice frame by frame: trigger(), release() and        *)
(*               setters between process() calls on short buffers          *)
(*   SpecSweep   release sweeps at full length on long buffers             *)
(*   SpecPanel   the GPIOController's buttons, pitch-envelope switch,      *)
(*               secret modes and banks; SpecPanelFair with main and the   *)
(*               audio thread scheduled                                    *)
(*   SpecPreset  the controller's parameters through encoder steps and the *)
(*               preset secret modes                                       *)
(*   SpecOutputFair  SpecOutput with the audio loop and main scheduled     *)
(*   SpecSwitch  a MomentarySwitch's poll loop against every sequence of   *)
(*               pin readings                                              *)
(*   SpecEnvelope  the Envelope on its own, at a low and at the default    *)
(*               sample rate                                               *)
(*   SpecDelay   the DelayEffect's cursor and read indices, sample by      *)
(*               sample, against its setters                               *)
(***************************************************************************)
EXTENDS Integers, Sequences, FiniteSets, TLC

VARIABLES
    par,        \* the externally settable parameters, one field per C++ member
    nCalls,     \* number of setter calls made so far (bounded)
    \* AudioOutput and main() --------------------------------------------
    haveAlsa,   \* whether the build defines HAVE_ALSA
    running,    \* AudioOutput::running (std::atomic<bool>)
    audioThread,\* AudioOutput::audioThread: "none", "joinable" or "joined"
    lpc,        \* where audioLoop() is: "none" before the thread exists
    pcm,        \* the snd_pcm_t handle of audioLoop: "null", "open", "closed"
    loopExit,   \* why audioLoop returned: "none" while it has not
    mpc,        \* where main() is
    startResult,\* what AudioOutput::start() returned to main ("none" before)
    totalBuffers, underruns, consecutiveUnderruns, \* audioLoop's counters
    pcmCloses,          \* snd_pcm_close calls made so far
    pcmMisuse,          \* whether an ALSA call was made on a handle not open
    buffersAfterStop,   \* loop passes run since stop() cleared running
    writes,             \* the result of every snd_pcm_writei so far
    recoveredLog,       \* the counts of the "underrun(s) recovered" lines
    \* AudioEngine, its components and the threads that use them ----------
    audioMode,          \* AudioEngine::audioMode (AudioParameter<AudioMode>)
    envActive,          \* Envelope::active (std::atomic<bool>)
    envValue,           \* Envelope::currentValue (plain float)
    inReleasePhase,     \* AudioEngine::inReleasePhase (plain bool)
    pitchEnvStartLevel, \* AudioEngine::pitchEnvStartLevel (plain float)
    oscPhase,           \* Oscillator::phase, in steps of 1/PhaseSteps cycle
    lfoPhase,           \* LFO::phase, in steps of 1/PhaseSteps cycle
    delayWritePos,      \* DelayEffect::writePos
    springWriteIndex,   \* ReverbEffect::SpringLine::writeIndex
    triggerMutex,       \* AudioEngine::triggerMutex: "free" or its holder
    apc,                \* where the audio thread is inside process()
    aloc,               \* the locals of the process() call in progress
    out,                \* the buffer the last process() call delivered
    cpc,                \* per control thread: where it is in its call
    storedDuring,       \* parameters stored since process() last began
    \* AudioFilePlayer ----------------------------------------------------
    filesMutex,         \* AudioFilePlayer::filesMutex: "free" or its holder
    audioFiles,         \* the loaded files, each by its number of samples
    currentFileIndex,   \* std::atomic<int>
    playbackPosition,   \* std::atomic<size_t>, in samples
    playing,            \* std::atomic<bool>
    finished,           \* std::atomic<bool>
    \* The samples of a synthesis buffer ----------------------------------
    dcXPrev,            \* DCBlocker::xPrev
    dcYPrev,            \* DCBlocker::yPrev
    preClamp,           \* filterBuffer[i] * vol of the last buffer, per frame
    output,             \* the interleaved stereo buffer process() filled
    nBuffers,           \* buffers processed so far
    \* The voice, frame by frame -------------------------------------------
    currentFrequency,   \* AudioEngine::currentFrequency, frequencySmooth's current
    oscFrequency,       \* Oscillator::frequency
    frames,             \* what the last process() call computed for each frame
    everTriggered,      \* whether trigger() has been called since construction
    sinceRelease,       \* frames generated since the last release() (capped)
    lastOp,             \* the engine operation called last
    releaseProgress,    \* process()'s releaseProgress at the last sample of
                        \* the release phase in progress; -1 before the first
    freshPlay,          \* play() has returned and since then fillBuffer has
                        \* not read the position, nor was the player called
    \* Leaf components on their own ----------------------------------------
    momentary,          \* a MomentarySwitch and the callbacks it delivered
    envelope,           \* an Envelope, its sampleRate included
    delay,              \* a DelayEffect: cursor, times and the indices read
    \* The process ----------------------------------------------------------
    arch,               \* the architecture the build targets
    flushToZero,        \* per thread: the FZ bit of its FP control register
    mlockRequested,     \* whether mlockall() has been called
    \* GPIOController ------------------------------------------------------
    triggerPin,             \* the trigger button's pin: 0 while held down
    triggerPressed,         \* MomentarySwitch::pressed of the trigger button
    secretMode,             \* GPIOController::secretMode
    recentPitchEnvToggles,  \* size of GPIOController::recentPitchEnvToggles
    lastPitchEnvPosition,   \* GPIOController::lastPitchEnvPosition
    shiftPressed,           \* GPIOController::shiftPressed
    currentBank,            \* GPIOController::currentBank
    recentShiftPresses,     \* size of GPIOController::recentShiftPresses
    rapidShiftPresses,      \* shift presses of the burst in progress
    switchPc,               \* where the pitch switch's poll thread is
    pitchEnvMutex,          \* GPIOController::pitchEnvMutex: "free" or holder
    faulted,                \* whether the process was ended by a trap
    params,                 \* GPIOController::params
    secretModePreset,       \* GPIOController::secretModePreset
    nEncoderSteps           \* encoder steps handled so far (bounded)

paramVars == <<par, nCalls>>
outputVars == <<haveAlsa, running, audioThread, lpc, pcm, loopExit, mpc,
                startResult, totalBuffers, underruns, consecutiveUnderruns,
                pcmCloses, pcmMisuse, buffersAfterStop, writes, recoveredLog>>

engineVars == <<audioMode, envActive, envValue, inReleasePhase,
                pitchEnvStartLevel, oscPhase, lfoPhase, delayWritePos,
                springWriteIndex, triggerMutex, apc, aloc, out, cpc,
                storedDuring>>

playerVars == <<filesMutex, audioFiles, currentFileIndex, playbackPosition,
                playing, finished>>

voiceRest == <<dcXPrev, dcYPrev, preClamp, output, nBuffers,
               currentFrequency, oscFrequency, frames, everTriggered,
               sinceRelease, lastOp>>

unitVars == <<momentary, envelope, delay>>

hostVars == <<arch, flushToZero, mlockRequested>>

voiceVars == <<voiceRest, releaseProgress, freshPlay, unitVars, hostVars>>

shiftVars == <<shiftPressed, currentBank, recentShiftPresses,
               rapidShiftPresses>>

switchVars == <<switchPc, pitchEnvMutex, faulted>>

presetVars == <<params, secretModePreset, nEncoderSteps>>

panelVars == <<triggerPin, triggerPressed, secretMode, recentPitchEnvToggles,
               lastPitchEnvPosition, shiftVars, switchVars, presetVars>>

vars == <<paramVars, outputVars, engineVars, playerVars, voiceVars, panelVars>>

----------------------------------------------------------------------------
(* Bounds of the model *)

MaxSetterCalls == 2
MaxBuffers == 4         \* buffers the audio loop writes before the model stops it
MaxVoiceBuffers == 2    \* buffers SpecVoice computes sample by sample
NumFrames == 2          \* frames per process() call (the engine's bufferSize)
SampleRate == 512       \* the engine's sampleRate (a constructor argument)
PhaseSteps == 3         \* resolution of the phase accumulators in SpecRT
RingLen == 3            \* length of the delay and spring rings in SpecRT

----------------------------------------------------------------------------
(* Common.h *)

Min2(a, b) == IF b < a THEN b ELSE a
Max2(a, b) == IF a < b THEN b ELSE a

\* clamp(value, min, max) = std::max(min, std::min(max, value))
clamp(value, lo, hi) == Max2(lo, Min2(hi, value))

\* The C++ % operator: the remainder of the division truncated toward zero,
\* so it has the sign of the dividend.
CppRem(a, b) == IF a >= 0 THEN a % b ELSE -((-a) % b)

\* enum class Waveform { Sine = 0, Square = 1, Saw = 2, Triangle = 3 }
Waveforms == 0..3

\* enum class PitchEnvelopeMode { None = 0, Up = 1, Down = 2 }
PitchNone == "None"
PitchUp == "Up"
PitchDown == "Down"
PitchEnvelopeModes == {PitchNone, PitchUp, PitchDown}

----------------------------------------------------------------------------
(* The parameters after the constructors have run: each leaf component's   *)
(* constructor, then the AudioEngine constructor body (the Auto Wail       *)
(* preset), which goes through the setters.                                *)

InitPar ==
    [ volume         |-> 700,       \* AudioEngine: volume(0.7f)
      baseFrequency  |-> 440000,    \* AudioEngine: baseFrequency(440.0f)
      lfoPitchDepth  |-> 0,         \* AudioEngine: lfoPitchDepth(0.0f)
      pitchEnvMode   |-> PitchUp,   \* AudioEngine: pitchEnvMode(Up)
      oscWaveform    |-> 1,         \* oscillator.setWaveform(Waveform::Square)
      attackTime     |-> 10,        \* envelope.setAttack(0.01f)
      releaseTime    |-> 500,       \* envelope.setRelease(0.5f)
      lfoFrequency   |-> 350,       \* lfo.setFrequency(0.35f)
      lfoDepth       |-> 500,       \* lfo.setDepth(0.5f)
      lfoWaveform    |-> 3,         \* lfo.setWaveform(Waveform::Triangle)
      delayTime      |-> 300,       \* DelayEffect: delayTime(0.3f)
      delayFeedback  |-> 550,       \* delay.setFeedback(0.55f)
      delayDryWet    |-> 300,       \* delay.setDryWet(0.3f)
      springDecay    |-> 650,       \* ReverbEffect: springDecay(0.65f)
      damping        |-> 650,       \* ReverbEffect: damping(0.65f)
      wet            |-> 400,       \* reverb.setDryWet(0.4f)
      dry            |-> 600 ]      \* reverb.setDryWet(0.4f): dry = 1 - wet

\* GPIOController::Parameters, the member initialisers (the two filter
\* parameters, which this struct does not have, are left out throughout)
StartupParameters ==
    [ volume        |-> 600,
      lfoDepth      |-> 500,
      baseFreq      |-> 440000,
      delayFeedback |-> 550,
      reverbMix     |-> 400,
      lfoRate       |-> 350,
      delayTime     |-> 375,
      oscWaveform   |-> 1,
      reverbSize    |-> 700,
      release       |-> 500 ]

----------------------------------------------------------------------------
(* The setters.  Each operator is the value the setter stores.             *)

\* AudioEngine::setVolume: volume.set(clamp(vol, 0.0f, 1.0f))
setVolume(vol) == clamp(vol, 0, 1000)

\* AudioEngine::setFrequency: baseFrequency.set(clamp(freq, 20.0f, 20000.0f))
setFrequency(freq) == clamp(freq, 20000, 20000000)

\* AudioEngine::setLfoPitchDepth
setLfoPitchDepth(depth) == clamp(depth, 0, 1000)

\* AudioEngine::setWaveform(int) / setLfoWaveform(int):
\* static_cast<Waveform>(index % 4)
WaveformOfIndex(index) == CppRem(index, 4)

\* Envelope::setAttack: std::clamp(timeSeconds, 0.001f, 2.0f)
setAttack(t) == clamp(t, 1, 2000)

\* Envelope::setRelease: std::clamp(timeSeconds, 0.01f, 5.0f)
setRelease(t) == clamp(t, 10, 5000)

\* LFO::setFrequency: clamp(freq, 0.1f, 20.0f)
lfoSetFrequency(f) == clamp(f, 100, 20000)

\* LFO::setDepth: clamp(d, 0.0f, 1.0f)
lfoSetDepth(d) == clamp(d, 0, 1000)

\* DelayEffect::setDelayTime: std::clamp(timeSeconds, 0.001f, 2.0f)
setDelayTime(t) == clamp(t, 1, 2000)

\* DelayEffect::setFeedback: std::clamp(fb, 0.0f, 0.95f)
setFeedback(fb) == clamp(fb, 0, 950)

\* DelayEffect::setDryWet: std::clamp(mix, 0.0f, 1.0f)
delaySetDryWet(mix) == clamp(mix, 0, 1000)

\* ReverbEffect::setSize / setDamping / setDryWet: std::clamp(x, 0.0f, 1.0f)
reverbClamp(x) == clamp(x, 0, 1000)

\* Inputs a control surface may pass: far below, at zero, inside, above and
\* far above every documented range.
FloatInputs == {-100000, 0, 500, 3000, 30000000}
IndexInputs == -2..5

----------------------------------------------------------------------------
(* The engine state right after AudioEngine's constructor.                  *)

\* AudioOutput right after its constructor, main() before start().
InitOutputRest ==
    /\ running = FALSE
    /\ audioThread = "none"
    /\ lpc = "none"
    /\ pcm = "null"
    /\ loopExit = "none"
    /\ mpc = "init"
    /\ startResult = "none"
    /\ totalBuffers = 0
    /\ underruns = 0
    /\ consecutiveUnderruns = 0
    /\ pcmCloses = 0
    /\ pcmMisuse = FALSE
    /\ buffersAfterStop = 0
    /\ writes = <<>>
    /\ recoveredLog = <<>>

InitOutputIdle ==
    /\ haveAlsa = TRUE
    /\ InitOutputRest

ControlThreads == {"c1", "c2"}

Synthesis == "Synthesis"
MP3Playback == "MP3Playback"

\* The locals of process(): the parameters it loaded, the frame index i, the
\* envelope buffer, and what the effects stage read.
InitLocals ==
    [ mode |-> Synthesis, pitchMode |-> PitchUp, baseFreq |-> 440000,
      i |-> 0, envBuffer |-> <<>>, wet |-> 400, dry |-> 600, wetMix |-> <<>>,
      pos |-> 0 ]

\* MomentarySwitch: static constexpr int DEBOUNCE_MS, MIN_PRESS_MS
DEBOUNCE_MS == 10
MIN_PRESS_MS == 30

\* MomentarySwitch::MomentarySwitch(pin, onPress, onRelease): pressed(false),
\* running(false), lastState(1), lastChange and lastPressTime now.  The
\* two times are kept as the milliseconds gone by since, up to the limit
\* the loop compares them with.  hasRelease: whether onRelease is a
\* callback (it is nullptr for the shutdown and the waveform button).
\* callbacks: the callbacks the poll thread has delivered, in order.
MomentarySwitchNew(onRelease) ==
    [ hasRelease |-> onRelease, running |-> FALSE, pressed |-> FALSE,
      lastState |-> 1, sinceChange |-> 0, sincePress |-> 0,
      callbacks |-> <<>> ]

\* constexpr int DEFAULT_SAMPLE_RATE = 48000
DEFAULT_SAMPLE_RATE == 48000

\* constexpr float DECAY_SCALE = 4.605f
DECAY_SCALE == 4605

\* Envelope::updateCoefficients: DECAY_SCALE / (time * sampleRate), for a
\* time in thousandths of a second, in millionths (the coefficient of a
\* two-second attack at 48 kHz is 0.000048).  The rates of the model are
\* whole thousands, so that time * sampleRate / 1000 is exact.
updateCoefficients(timeMs, rate) ==
    (DECAY_SCALE * 1000) \div ((timeMs * rate) \div 1000)

\* Envelope::Envelope(sampleRate): attackTime(0.01f), releaseTime(0.05f),
\* currentValue(0.0f), active(false), updateCoefficients()
EnvelopeNew(rate) ==
    [ sampleRate |-> rate, attackTime |-> 10, releaseTime |-> 50,
      attackCoeff |-> updateCoefficients(10, rate),
      releaseCoeff |-> updateCoefficients(50, rate),
      currentValue |-> 0, active |-> FALSE ]

DelaySampleRate == 4    \* the sampleRate of the DelayEffect of SpecDelay
DelayFrames == 2        \* numSamples of its process() calls

\* DelayEffect::DelayEffect: maxDelaySamples(static_cast<int>(maxDelay *
\* sampleRate)), maxDelay = 2.0f
maxDelaySamples == 2 * DelaySampleRate

Infinity == -1          \* std::numeric_limits<float>::infinity()

\* DelayEffect::calculateSlewRate, in thousandths of a sample per sample:
\* infinity if repitchRate <= 0, else maxDelaySamples / (2 * repitchRate *
\* sampleRate)
calculateSlewRate(repitchRate) ==
    IF repitchRate <= 0
      THEN Infinity
      ELSE (maxDelaySamples * 1000 * 1000)
               \div (2 * repitchRate * DelaySampleRate)

\* DelayEffect::DelayEffect: writePos(0), delayTime(0.3f),
\* currentDelaySamples(0.3f * sampleRate), repitchRate(0.5f),
\* modDepth(0.003f), modPhase(0.0f), flutterPhase(0.0f), slewRate.  Sample
\* counts are in thousandths of a sample.  i: the sample process() is at
\* (numSamples outside a call); targetDelaySamples: its local; idx0 and
\* idx1: the indices lerpRead read last.
DelayEffectNew ==
    [ writePos |-> 0, delayTime |-> 300,
      currentDelaySamples |-> 300 * DelaySampleRate, repitchRate |-> 500,
      slewRate |-> calculateSlewRate(500), modDepth |-> 3, modPhase |-> 0,
      flutterPhase |-> 0, i |-> DelayFrames, targetDelaySamples |-> 0,
      idx0 |-> 0, idx1 |-> 0 ]

InitUnits ==
    /\ momentary = MomentarySwitchNew(TRUE)
    /\ envelope = EnvelopeNew(DEFAULT_SAMPLE_RATE)
    /\ delay = DelayEffectNew

\* Before main() has run: no thread has set its FZ bit.
InitHostRest ==
    /\ flushToZero = [main |-> FALSE, audio |-> FALSE]
    /\ mlockRequested = FALSE

\* What build.sh builds for: the Raspberry Pi (aarch64, armv7l) or a
\* development machine.
Architectures == {"aarch64", "arm", "x86_64"}

InitHost ==
    /\ arch = "aarch64"
    /\ InitHostRest

InitEngineRest ==
    /\ audioMode = Synthesis
    /\ envActive = FALSE
    /\ envValue = 0
    /\ inReleasePhase = FALSE
    /\ pitchEnvStartLevel = 1000
    /\ oscPhase = 0
    /\ lfoPhase = 0
    /\ delayWritePos = 0
    /\ springWriteIndex = 0
    /\ triggerMutex = "free"
    /\ apc = "idle"
    /\ aloc = InitLocals
    /\ out = [source |-> "none", baseFreq |-> 0, volume |-> 0]
    /\ cpc = [t \in ControlThreads |-> "idle"]
    /\ storedDuring = {}
    /\ filesMutex = "free"
    /\ audioFiles = <<>>
    /\ currentFileIndex = 0
    /\ playbackPosition = 0
    /\ playing = FALSE
    /\ finished = FALSE
    /\ dcXPrev = 0
    /\ dcYPrev = 0
    /\ preClamp = <<>>
    /\ output = <<>>
    /\ nBuffers = 0
    /\ currentFrequency = 440000
    /\ oscFrequency = 440000
    /\ frames = <<>>
    /\ everTriggered = FALSE
    /\ sinceRelease = 0
    /\ lastOp = "none"
    /\ releaseProgress = -1
    /\ freshPlay = FALSE
    /\ triggerPin = 1
    /\ triggerPressed = FALSE
    /\ secretMode = "None"
    /\ recentPitchEnvToggles = 0
    /\ lastPitchEnvPosition = "Off"
    /\ shiftPressed = FALSE
    /\ currentBank = "A"
    /\ recentShiftPresses = 0
    /\ rapidShiftPresses = 0
    /\ switchPc = "poll"
    /\ pitchEnvMutex = "free"
    /\ faulted = FALSE
    /\ params = StartupParameters
    /\ secretModePreset = 0
    /\ nEncoderSteps = 0

InitEngineIdle ==
    /\ InitEngineRest
    /\ InitUnits
    /\ InitHost

----------------------------------------------------------------------------
(* Envelope (Envelope.cpp)                                                  *)

\* Division rounded to the nearest integer: the float result, kept to the
\* model's thousandths.
RoundDiv(a, b) ==
    IF a >= 0 THEN (2 * a + b) \div (2 * b) ELSE -((2 * (-a) + b) \div (2 * b))

\* Envelope::updateCoefficients: DECAY_SCALE / (time * sampleRate), for a time
\* in thousandths of a second; the result in thousandths.
EnvelopeCoeff(timeMs) == (DECAY_SCALE * 1000) \div (timeMs * SampleRate)

\* currentValue += (target - currentValue) * coeff.  A float step that is
\* not zero moves the value; where it is less than half a thousandth the
\* model moves the value by one thousandth, so that the approach never stops
\* short of the target as it would not in float.
Approach(value, target, coeff) ==
    LET d == RoundDiv((target - value) * coeff, 1000)
    IN  IF d = 0 /\ target /= value /\ coeff > 0
          THEN (IF target > value THEN value + 1 ELSE value - 1)
          ELSE value + d

\* Envelope::generateSample: the approach to target 1.0 with the attack
\* coefficient while active, else to 0.0 with the release coefficient.
EnvelopeSample(value, active, attackMs, releaseMs) ==
    IF active
      THEN Approach(value, 1000, EnvelopeCoeff(attackMs))
      ELSE Approach(value, 0, EnvelopeCoeff(releaseMs))

\* process(): releaseProgress, 0 when pitchEnvStartLevel <= 0.001
ReleaseProgress(envV, startLevel) ==
    IF startLevel > 1
      THEN clamp(1000 - RoundDiv(envV * 1000, startLevel), 0, 1000)
      ELSE 0

\* A frame loop that never ends the release phase.
ReleasePhaseKept(rel, sweeping, envV) == rel

\* process(), inside the pitch-envelope branch: "End release phase when
\* envelope is essentially done": if (envValue < 0.001f) inReleasePhase =
\* false
ReleasePhaseAfter(rel, sweeping, envV) ==
    IF sweeping /\ envV < 1 THEN FALSE ELSE rel

----------------------------------------------------------------------------
(* AudioEngine::trigger and AudioEngine::release, one store per step.       *)
(* Both hold triggerMutex from their first statement to their return.       *)

ControlRestUnchanged ==
    UNCHANGED <<paramVars, outputVars, playerVars, voiceRest, freshPlay,
                unitVars, hostVars, panelVars, apc, aloc, out>>

ControlVarsUnchanged ==
    /\ ControlRestUnchanged
    /\ UNCHANGED releaseProgress

\* trigger(): std::lock_guard<std::mutex> lock(triggerMutex)
TrLock(t) ==
    /\ cpc[t] = "idle"
    /\ triggerMutex = "free"
    /\ triggerMutex' = t
    /\ cpc' = [cpc EXCEPT ![t] = "tr_phase"]
    /\ ControlVarsUnchanged
    /\ UNCHANGED <<audioMode, envActive, envValue, inReleasePhase,
                   pitchEnvStartLevel, oscPhase, lfoPhase, delayWritePos,
                   springWriteIndex, storedDuring>>

\* trigger(): oscillator.resetPhase()  (phase = 0.0f)
TrPhase(t) ==
    /\ cpc[t] = "tr_phase"
    /\ oscPhase' = 0
    /\ cpc' = [cpc EXCEPT ![t] = "tr_env"]
    /\ ControlVarsUnchanged
    /\ UNCHANGED <<audioMode, envActive, envValue, inReleasePhase,
                   pitchEnvStartLevel, lfoPhase, delayWritePos,
                   springWriteIndex, triggerMutex, storedDuring>>

\* trigger(): envelope.trigger()  (active.store(true))
TrEnv(t) ==
    /\ cpc[t] = "tr_env"
    /\ envActive' = TRUE
    /\ cpc' = [cpc EXCEPT ![t] = "tr_flag"]
    /\ ControlVarsUnchanged
    /\ UNCHANGED <<audioMode, envValue, inReleasePhase, pitchEnvStartLevel,
                   oscPhase, lfoPhase, delayWritePos, springWriteIndex,
                   triggerMutex, storedDuring>>

\* trigger(): inReleasePhase = false; return (the lock_guard unlocks)
TrFlag(t) ==
    /\ cpc[t] = "tr_flag"
    /\ inReleasePhase' = FALSE
    /\ releaseProgress' = -1
    /\ triggerMutex' = "free"
    /\ cpc' = [cpc EXCEPT ![t] = "idle"]
    /\ ControlRestUnchanged
    /\ UNCHANGED <<audioMode, envActive, envValue, pitchEnvStartLevel,
                   oscPhase, lfoPhase, delayWritePos, springWriteIndex,
                   storedDuring>>

\* release(): std::lock_guard<std::mutex> lock(triggerMutex)
RlLock(t) ==
    /\ cpc[t] = "idle"
    /\ triggerMutex = "free"
    /\ triggerMutex' = t
    /\ cpc' = [cpc EXCEPT ![t] = "rl_capture"]
    /\ ControlVarsUnchanged
    /\ UNCHANGED <<audioMode, envActive, envValue, inReleasePhase,
                   pitchEnvStartLevel, oscPhase, lfoPhase, delayWritePos,
                   springWriteIndex, storedDuring>>

\* release(): pitchEnvStartLevel = envelope.getCurrentValue()
RlCapture(t) ==
    /\ cpc[t] = "rl_capture"
    /\ pitchEnvStartLevel' = envValue
    /\ cpc' = [cpc EXCEPT ![t] = "rl_flag"]
    /\ ControlVarsUnchanged
    /\ UNCHANGED <<audioMode, envActive, envValue, inReleasePhase, oscPhase,
                   lfoPhase, delayWritePos, springWriteIndex, triggerMutex,
                   storedDuring>>

\* release(): inReleasePhase = true
RlFlag(t) ==
    /\ cpc[t] = "rl_flag"
    /\ inReleasePhase' = TRUE
    /\ releaseProgress' = -1
    /\ cpc' = [cpc EXCEPT ![t] = "rl_env"]
    /\ ControlRestUnchanged
    /\ UNCHANGED <<audioMode, envActive, envValue, pitchEnvStartLevel,
                   oscPhase, lfoPhase, delayWritePos, springWriteIndex,
                   triggerMutex, storedDuring>>

\* release(): envelope.release()  (active.store(false)); return
RlEnv(t) ==
    /\ cpc[t] = "rl_env"
    /\ envActive' = FALSE
    /\ triggerMutex' = "free"
    /\ cpc' = [cpc EXCEPT ![t] = "idle"]
    /\ ControlVarsUnchanged
    /\ UNCHANGED <<audioMode, envValue, inReleasePhase, pitchEnvStartLevel,
                   oscPhase, lfoPhase, delayWritePos, springWriteIndex,
                   storedDuring>>

----------------------------------------------------------------------------
(* AudioEngine::process, synthesis path: what the audio thread does in one  *)
(* call, one shared load or store per step.                                 *)

AudioRestUnchanged ==
    UNCHANGED <<paramVars, outputVars, voiceRest, freshPlay, unitVars,
                hostVars, panelVars, cpc, triggerMutex>>

AudioVarsUnchanged ==
    /\ AudioRestUnchanged
    /\ UNCHANGED releaseProgress

\* process(): if (audioMode.get() == AudioMode::MP3Playback && mp3Player)
AudioBegin ==
    /\ apc = "idle"
    /\ aloc' = [aloc EXCEPT !.mode = audioMode, !.i = 0, !.envBuffer = <<>>]
    /\ apc' = IF audioMode = MP3Playback THEN "fill_check" ELSE "load"
    /\ storedDuring' = {}
    /\ AudioVarsUnchanged
    /\ UNCHANGED <<playerVars, audioMode, envActive, envValue, inReleasePhase,
                   pitchEnvStartLevel, oscPhase, lfoPhase, delayWritePos,
                   springWriteIndex, out>>

\* A stale copy of the base frequency: the one the last buffer was made with.
LoadBaseFrequencyStale == aloc.baseFreq

\* The value process() takes for baseFreq: baseFrequency.get()
LoadBaseFrequency == par.baseFrequency

\* process(): pitchMode = pitchEnvMode.get(); baseFreq = baseFrequency.get()
AudioLoad ==
    /\ apc = "load"
    /\ aloc' = [aloc EXCEPT !.pitchMode = par.pitchEnvMode,
                            !.baseFreq = LoadBaseFrequency]
    /\ apc' = "env"
    /\ AudioVarsUnchanged
    /\ UNCHANGED <<playerVars, audioMode, envActive, envValue, inReleasePhase,
                   pitchEnvStartLevel, oscPhase, lfoPhase, delayWritePos,
                   springWriteIndex, out, storedDuring>>

\* envelope.generate(): one generateSample() per frame, each loading active
AudioEnv ==
    /\ apc = "env"
    /\ LET v == EnvelopeSample(envValue, envActive, par.attackTime,
                               par.releaseTime)
           last == aloc.i + 1 = NumFrames
       IN  /\ envValue' = v
           /\ aloc' = [aloc EXCEPT !.envBuffer = Append(@, v),
                                   !.i = IF last THEN 0 ELSE @ + 1]
           /\ apc' = IF last THEN "lfo" ELSE "env"
    /\ AudioVarsUnchanged
    /\ UNCHANGED <<playerVars, audioMode, envActive, inReleasePhase,
                   pitchEnvStartLevel, oscPhase, lfoPhase, delayWritePos,
                   springWriteIndex, out, storedDuring>>

\* lfo.generate(): the LFO's phase advances once per frame
AudioLfo ==
    /\ apc = "lfo"
    /\ lfoPhase' = (lfoPhase + NumFrames) % PhaseSteps
    /\ apc' = "pitch"
    /\ AudioVarsUnchanged
    /\ UNCHANGED <<playerVars, audioMode, envActive, envValue, inReleasePhase,
                   pitchEnvStartLevel, oscPhase, delayWritePos,
                   springWriteIndex, aloc, out, storedDuring>>

\* The frame loop down to "End release phase": reads inReleasePhase and
\* pitchEnvStartLevel, computes releaseProgress from envBuffer[i], and
\* clears inReleasePhase once envBuffer[i] < 0.001.
AudioPitch ==
    /\ apc = "pitch"
    /\ LET sweeping == inReleasePhase /\ aloc.pitchMode /= PitchNone
           envV == aloc.envBuffer[aloc.i + 1]
       IN  /\ inReleasePhase' = ReleasePhaseAfter(inReleasePhase, sweeping, envV)
           /\ releaseProgress' =
                 IF ~sweeping THEN releaseProgress
                 ELSE IF envV < 1 THEN -1
                 ELSE ReleaseProgress(envV, pitchEnvStartLevel)
    /\ apc' = "osc"
    /\ AudioRestUnchanged
    /\ UNCHANGED <<playerVars, audioMode, envActive, envValue,
                   pitchEnvStartLevel, oscPhase, lfoPhase, delayWritePos,
                   springWriteIndex, aloc, out, storedDuring>>

\* oscBuffer[i] = oscillator.generateSample(): the phase advances
AudioOsc ==
    /\ apc = "osc"
    /\ oscPhase' = (oscPhase + 1) % PhaseSteps
    /\ LET last == aloc.i + 1 = NumFrames
       IN  /\ aloc' = [aloc EXCEPT !.i = IF last THEN 0 ELSE @ + 1]
           /\ apc' = IF last THEN "fx" ELSE "pitch"
    /\ AudioVarsUnchanged
    /\ UNCHANGED <<playerVars, audioMode, envActive, envValue, inReleasePhase,
                   pitchEnvStartLevel, lfoPhase, delayWritePos,
                   springWriteIndex, out, storedDuring>>

\* The envelope is applied and envBuffer is done with; delay.process(): its
\* ring advances by one slot per frame.
AudioFx ==
    /\ apc = "fx"
    /\ delayWritePos' = (delayWritePos + NumFrames) % RingLen
    /\ aloc' = [aloc EXCEPT !.envBuffer = <<>>, !.i = 0, !.wetMix = <<>>]
    /\ apc' = "reverb"
    /\ AudioVarsUnchanged
    /\ UNCHANGED <<playerVars, audioMode, envActive, envValue, inReleasePhase,
                   pitchEnvStartLevel, oscPhase, lfoPhase, springWriteIndex,
                   out, storedDuring>>

\* reverb.process(), one frame of its loop: the springs advance by one slot
\* and the frame is mixed with the members wet and dry (wetMix = ... * wet
\* * OUTPUT_GAIN; dryMix = inSample * dry).  They are plain floats that
\* setDryWet stores concurrently: a frame after the first takes them from
\* memory as they are now, or as the frame before it had them (kept in
\* registers across the loop).
AudioReverb ==
    /\ apc = "reverb"
    /\ springWriteIndex' = (springWriteIndex + 1) % RingLen
    /\ \E reloaded \in (IF aloc.i = 0 THEN {TRUE} ELSE BOOLEAN) :
          LET last == aloc.i + 1 = NumFrames
              wet == IF reloaded THEN par.wet ELSE aloc.wet
              dry == IF reloaded THEN par.dry ELSE aloc.dry
          IN  /\ aloc' = [aloc EXCEPT !.wet = wet, !.dry = dry,
                                      !.wetMix = Append(@, wet),
                                      !.i = IF last THEN 0 ELSE @ + 1]
              /\ apc' = IF last THEN "out" ELSE "reverb"
    /\ AudioVarsUnchanged
    /\ UNCHANGED <<playerVars, audioMode, envActive, envValue, inReleasePhase,
                   pitchEnvStartLevel, oscPhase, lfoPhase, delayWritePos, out,
                   storedDuring>>

\* dcBlocker.process(); vol = volume.get(); the clamped samples go to both
\* channels; return
AudioOut ==
    /\ apc = "out"
    /\ out' = [source |-> "synth", baseFreq |-> aloc.baseFreq,
               volume |-> par.volume]
    /\ aloc' = [aloc EXCEPT !.wetMix = <<>>]
    /\ apc' = "idle"
    /\ AudioVarsUnchanged
    /\ UNCHANGED <<playerVars, audioMode, envActive, envValue, inReleasePhase,
                   pitchEnvStartLevel, oscPhase, lfoPhase, delayWritePos,
                   springWriteIndex, storedDuring>>

----------------------------------------------------------------------------
(* SpecRT: two control threads call trigger() and release() at any time     *)
(* while the audio thread runs process() in synthesis mode.  The release    *)
(* time is the shortest one setReleaseTime stores.                          *)

InitRT ==
    /\ par = [InitPar EXCEPT !.releaseTime = setRelease(0)]
    /\ nCalls = 0
    /\ InitOutputIdle
    /\ InitEngineIdle

NextRT ==
    \/ \E t \in ControlThreads : TrLock(t)
    \/ \E t \in ControlThreads : TrPhase(t)
    \/ \E t \in ControlThreads : TrEnv(t)
    \/ \E t \in ControlThreads : TrFlag(t)
    \/ \E t \in ControlThreads : RlLock(t)
    \/ \E t \in ControlThreads : RlCapture(t)
    \/ \E t \in ControlThreads : RlFlag(t)
    \/ \E t \in ControlThreads : RlEnv(t)
    \/ AudioBegin
    \/ AudioLoad
    \/ AudioEnv
    \/ AudioLfo
    \/ AudioPitch
    \/ AudioOsc
    \/ AudioFx
    \/ AudioReverb
    \/ AudioOut

SpecRT == InitRT /\ [][NextRT]_vars

\* A step of the audio thread: it moves inside process().
AudioStep == apc' /= apc \/ aloc' /= aloc

\* C2: whenever the audio thread is about to read the release bookkeeping,
\* the envelope's active flag and inReleasePhase hold a combination that
\* whole trigger() and release() calls leave behind: never both set.
C2_BookkeepingSeenConsistent ==
    apc = "pitch" => ~(envActive /\ inReleasePhase)

\* C3: the oscillator phase, the envelope value, the LFO phase and the
\* effects' ring positions change only in steps of the audio thread.
C3_DspStateOnlyAudioThread ==
    [][ (oscPhase' /= oscPhase \/ envValue' /= envValue
          \/ lfoPhase' /= lfoPhase \/ delayWritePos' /= delayWritePos
          \/ springWriteIndex' /= springWriteIndex) => AudioStep ]_vars

\* C6: a release() made while the voice is already released (the envelope
\* inactive, the release phase of an earlier release() still running) is a
\* no-op: its capture leaves pitchEnvStartLevel as the first release() set
\* it, whatever the audio thread processed in between.
C6_SecondReleaseIsNoOp ==
    [][ \A t \in ControlThreads :
          (cpc[t] = "rl_capture" /\ cpc'[t] = "rl_flag"
             /\ ~envActive /\ inReleasePhase)
            => pitchEnvStartLevel' = pitchEnvStartLevel ]_vars

\* A frame of the frame loop that is computed in the release phase: the
\* step that reads inReleasePhase and finds it set.
ReleasePhaseSample ==
    /\ apc = "pitch" /\ apc' = "osc"
    /\ inReleasePhase /\ aloc.pitchMode /= PitchNone

\* releaseProgress one envelope step after the capture of a level: what the
\* first sample of a release phase yields when release() was called between
\* two buffers.
ProgressAfterOneStep(level) ==
    ReleaseProgress(EnvelopeSample(level, FALSE, par.attackTime,
                                   par.releaseTime), level)

\* C29: the level release() captures is the envelope level at the instant
\* release begins: the sweep progress 1 - envelope / captured level is 0 at
\* the first sample processed in the release phase (the captured level
\* itself, or one release step below it) and never decreases until the
\* release phase ends, also when release() arrives while the audio thread
\* is in the middle of a buffer.
C29_CapturedLevelStartsSweep ==
    [][ ReleasePhaseSample =>
          LET progress == ReleaseProgress(aloc.envBuffer[aloc.i + 1],
                                          pitchEnvStartLevel)
          IN  IF releaseProgress < 0
                THEN progress \in {0, ProgressAfterOneStep(pitchEnvStartLevel)}
                ELSE progress >= releaseProgress ]_vars

----------------------------------------------------------------------------
(* SpecSetters: control threads call setFrequency, setVolume and            *)
(* setReverbMix, one store per step, while the audio thread runs process(). *)

SetterInputs == {0, 3000}

SetterVarsUnchanged ==
    UNCHANGED <<nCalls, outputVars, playerVars, voiceVars, panelVars, audioMode,
                envActive,
                envValue, inReleasePhase, pitchEnvStartLevel, oscPhase,
                lfoPhase, delayWritePos, springWriteIndex, triggerMutex,
                apc, aloc, out>>

\* setFrequency(freq): baseFrequency.set(clamp(freq, 20, 20000)), one
\* relaxed atomic store
StoreFrequency(t) ==
    /\ cpc[t] = "idle"
    /\ \E v \in SetterInputs :
          par' = [par EXCEPT !.baseFrequency = setFrequency(v)]
    /\ storedDuring' = storedDuring \cup {"baseFrequency"}
    /\ UNCHANGED cpc
    /\ SetterVarsUnchanged

\* setVolume(vol): volume.set(clamp(vol, 0, 1)), one relaxed atomic store
StoreVolume(t) ==
    /\ cpc[t] = "idle"
    /\ \E v \in SetterInputs :
          par' = [par EXCEPT !.volume = setVolume(v)]
    /\ storedDuring' = storedDuring \cup {"volume"}
    /\ UNCHANGED cpc
    /\ SetterVarsUnchanged

\* setReverbMix(mix) -> ReverbEffect::setDryWet: wet = clamp(mix, 0, 1)
MixWet(t) ==
    /\ cpc[t] = "idle"
    /\ \E v \in SetterInputs :
          par' = [par EXCEPT !.wet = reverbClamp(v)]
    /\ cpc' = [cpc EXCEPT ![t] = "mix_dry"]
    /\ storedDuring' = storedDuring \cup {"reverbMix"}
    /\ SetterVarsUnchanged

\* ReverbEffect::setDryWet: dry = 1.0f - wet; return
MixDry(t) ==
    /\ cpc[t] = "mix_dry"
    /\ par' = [par EXCEPT !.dry = 1000 - par.wet]
    /\ cpc' = [cpc EXCEPT ![t] = "idle"]
    /\ UNCHANGED storedDuring
    /\ SetterVarsUnchanged

InitSetters ==
    /\ par = InitPar
    /\ nCalls = 0
    /\ InitOutputIdle
    /\ InitEngineIdle

NextSetters ==
    \/ \E t \in ControlThreads : StoreFrequency(t)
    \/ \E t \in ControlThreads : StoreVolume(t)
    \/ \E t \in ControlThreads : MixWet(t)
    \/ \E t \in ControlThreads : MixDry(t)
    \/ AudioBegin
    \/ AudioLoad
    \/ AudioEnv
    \/ AudioLfo
    \/ AudioPitch
    \/ AudioOsc
    \/ AudioFx
    \/ AudioReverb
    \/ AudioOut

SpecSetters == InitSetters /\ [][NextSetters]_vars

\* C4: the reverb mix reaches the audio thread as one value: the wet and dry
\* levels a buffer is mixed with come from the same setReverbMix call, so
\* they add up to 1.
C4_MixReadAsOneValue ==
    apc = "out" => aloc.wet + aloc.dry = 1000

\* C30: the audio thread loads each external parameter once per buffer:
\* within one process() call all frames are computed with a single value of
\* each parameter, even if a setter stores a new value while that buffer is
\* being processed.  The base frequency, the pitch-envelope mode and the
\* volume are loaded into locals of process() once; the reverb mix is the
\* parameter whose value each frame takes by itself: all frames that
\* reverb.process() has mixed in this call used the same wet level.
C30_OneValuePerBuffer ==
    \A j, k \in 1..Len(aloc.wetMix) : aloc.wetMix[j] = aloc.wetMix[k]

\* C9: a buffer uses the latest value stored before it began: past its
\* parameter loads, the base frequency it holds differs from the stored one
\* only if a store was made after the buffer began, and likewise the volume
\* of the buffer it delivered.
C9_StoreVisibleFromNextBuffer ==
    /\ (apc \in {"env", "lfo", "pitch", "osc", "fx", "reverb", "out"}
          /\ "baseFrequency" \notin storedDuring)
         => aloc.baseFreq = par.baseFrequency
    /\ (apc = "idle" /\ out.source = "synth" /\ "volume" \notin storedDuring)
         => out.volume = par.volume

\* A buffer made entirely after setFrequency and setVolume stored new values
\* and delivered with them.
C9_Witness ==
    /\ apc = "idle"
    /\ out.source = "synth"
    /\ storedDuring = {}
    /\ out.baseFreq = setFrequency(0) /\ out.baseFreq /= InitPar.baseFrequency
    /\ out.volume = setVolume(3000) /\ out.volume /= InitPar.volume

----------------------------------------------------------------------------
(* AudioFilePlayer and the engine's MP3 playback methods, on a control      *)
(* thread; AudioFilePlayer::fillBuffer on the audio thread.                 *)

\* What a directory can hold: the decoded length, in samples, of each file.
Directories == {<<>>, <<2>>, <<6, 2>>}

SelectInputs == {-1, 0, 1, 2}

PlayerCallUnchanged ==
    UNCHANGED <<paramVars, outputVars, voiceRest, releaseProgress, unitVars,
                hostVars, panelVars,
                envActive, envValue, inReleasePhase, pitchEnvStartLevel,
                oscPhase, lfoPhase, delayWritePos, springWriteIndex,
                triggerMutex, apc, aloc, out, storedDuring>>

\* A step inside a call of the player
PlayerOpUnchanged ==
    /\ PlayerCallUnchanged
    /\ UNCHANGED freshPlay

\* The first step of a call of the player other than the return of play()
PlayerCallBegins ==
    /\ PlayerCallUnchanged
    /\ freshPlay' = FALSE

\* enableMP3Mode -> loadFilesFromDirectory: lock_guard; audioFiles.clear()
EnLock(t) ==
    /\ cpc[t] = "idle"
    /\ filesMutex = "free"
    /\ filesMutex' = t
    /\ audioFiles' = <<>>
    /\ cpc' = [cpc EXCEPT ![t] = "en_load"]
    /\ PlayerCallBegins
    /\ UNCHANGED <<audioMode, currentFileIndex, playbackPosition, playing,
                   finished>>

\* loadFilesFromDirectory: decode every file of the directory; with none,
\* return false; else reset index, position and finished and return true.
EnLoad(t) ==
    /\ cpc[t] = "en_load"
    /\ \E dir \in Directories :
          /\ audioFiles' = dir
          /\ IF dir = <<>>
               THEN /\ cpc' = [cpc EXCEPT ![t] = "idle"]
                    /\ UNCHANGED <<currentFileIndex, playbackPosition,
                                   finished>>
               ELSE /\ cpc' = [cpc EXCEPT ![t] = "en_mode"]
                    /\ currentFileIndex' = 0
                    /\ playbackPosition' = 0
                    /\ finished' = FALSE
    /\ filesMutex' = "free"
    /\ PlayerOpUnchanged
    /\ UNCHANGED <<audioMode, playing>>

\* enableMP3Mode: audioMode.set(AudioMode::MP3Playback); return true
EnMode(t) ==
    /\ cpc[t] = "en_mode"
    /\ audioMode' = MP3Playback
    /\ cpc' = [cpc EXCEPT ![t] = "idle"]
    /\ PlayerOpUnchanged
    /\ UNCHANGED playerVars

\* disableMP3Mode: audioMode.set(AudioMode::Synthesis)
DisMode(t) ==
    /\ cpc[t] = "idle"
    /\ audioMode = MP3Playback
    /\ audioMode' = Synthesis
    /\ cpc' = [cpc EXCEPT ![t] = "dis_stop"]
    /\ PlayerCallBegins
    /\ UNCHANGED playerVars

\* disableMP3Mode: mp3Player->stop()
DisStop(t) ==
    /\ cpc[t] = "dis_stop"
    /\ playing' = FALSE
    /\ cpc' = [cpc EXCEPT ![t] = "idle"]
    /\ PlayerOpUnchanged
    /\ UNCHANGED <<audioMode, filesMutex, audioFiles, currentFileIndex,
                   playbackPosition, finished>>

\* startMP3Playback: in MP3 mode, play(): playbackPosition.store(0)
PlayPos(t) ==
    /\ cpc[t] = "idle"
    /\ audioMode = MP3Playback
    /\ playbackPosition' = 0
    /\ cpc' = [cpc EXCEPT ![t] = "play_fin"]
    /\ PlayerCallBegins
    /\ UNCHANGED <<audioMode, filesMutex, audioFiles, currentFileIndex,
                   playing, finished>>

\* play(): finished.store(false)
PlayFin(t) ==
    /\ cpc[t] = "play_fin"
    /\ finished' = FALSE
    /\ cpc' = [cpc EXCEPT ![t] = "play_on"]
    /\ PlayerOpUnchanged
    /\ UNCHANGED <<audioMode, filesMutex, audioFiles, currentFileIndex,
                   playbackPosition, playing>>

\* play(): playing.store(true)
PlayOn(t) ==
    /\ cpc[t] = "play_on"
    /\ playing' = TRUE
    /\ cpc' = [cpc EXCEPT ![t] = "name_lock"]
    /\ freshPlay' = TRUE
    /\ PlayerCallUnchanged
    /\ UNCHANGED <<audioMode, filesMutex, audioFiles, currentFileIndex,
                   playbackPosition, finished>>

\* startMP3Playback: getCurrentFileName(): lock_guard lock(filesMutex)
NameLock(t) ==
    /\ cpc[t] = "name_lock"
    /\ filesMutex = "free"
    /\ filesMutex' = t
    /\ cpc' = [cpc EXCEPT ![t] = "name_read"]
    /\ PlayerOpUnchanged
    /\ UNCHANGED <<audioMode, audioFiles, currentFileIndex, playbackPosition,
                   playing, finished>>

\* getCurrentFileName(): copy the file name; return
NameRead(t) ==
    /\ cpc[t] = "name_read"
    /\ filesMutex' = "free"
    /\ cpc' = [cpc EXCEPT ![t] = "idle"]
    /\ PlayerOpUnchanged
    /\ UNCHANGED <<audioMode, audioFiles, currentFileIndex, playbackPosition,
                   playing, finished>>

\* stopMP3Playback -> stop(): playing.store(false)
StopPlayback(t) ==
    /\ cpc[t] = "idle"
    /\ playing
    /\ playing' = FALSE
    /\ UNCHANGED cpc
    /\ PlayerCallBegins
    /\ UNCHANGED <<audioMode, filesMutex, audioFiles, currentFileIndex,
                   playbackPosition, finished>>

\* selectMP3File -> selectFile: lock_guard lock(filesMutex)
SelLock(t) ==
    /\ cpc[t] = "idle"
    /\ filesMutex = "free"
    /\ filesMutex' = t
    /\ cpc' = [cpc EXCEPT ![t] = "sel_store"]
    /\ PlayerCallBegins
    /\ UNCHANGED <<audioMode, audioFiles, currentFileIndex, playbackPosition,
                   playing, finished>>

\* selectFile(index): a valid index is stored and the position rewound
SelStore(t) ==
    /\ cpc[t] = "sel_store"
    /\ \E index \in SelectInputs :
          IF index >= 0 /\ index < Len(audioFiles)
            THEN /\ currentFileIndex' = index
                 /\ playbackPosition' = 0
                 /\ finished' = FALSE
            ELSE UNCHANGED <<currentFileIndex, playbackPosition, finished>>
    /\ filesMutex' = "free"
    /\ cpc' = [cpc EXCEPT ![t] = "idle"]
    /\ PlayerOpUnchanged
    /\ UNCHANGED <<audioMode, audioFiles, playing>>

FillRestUnchanged ==
    UNCHANGED <<paramVars, outputVars, voiceRest, releaseProgress, unitVars,
                hostVars, panelVars, cpc, triggerMutex, audioMode,
                envActive, envValue, inReleasePhase, pitchEnvStartLevel,
                oscPhase, lfoPhase, delayWritePos, springWriteIndex,
                storedDuring>>

FillVarsUnchanged ==
    /\ FillRestUnchanged
    /\ UNCHANGED freshPlay

\* process() without its return after fillBuffer: on into the synthesis path.
AfterFillFallsThrough == "load"

\* Where process() continues after fillBuffer: it returns.
AfterFill == "idle"

\* fillBuffer: if (!playing.load()) { memset; return; }
FillCheck ==
    /\ apc = "fill_check"
    /\ IF playing
         THEN /\ apc' = "fill_lock"
              /\ UNCHANGED out
         ELSE /\ apc' = AfterFill
              /\ out' = [out EXCEPT !.source = "silence"]
    /\ FillVarsUnchanged
    /\ UNCHANGED <<playerVars, aloc>>

\* fillBuffer: std::lock_guard<std::mutex> lock(filesMutex)
FillLock ==
    /\ apc = "fill_lock"
    /\ filesMutex = "free"
    /\ filesMutex' = "audio"
    /\ apc' = "fill_read"
    /\ FillVarsUnchanged
    /\ UNCHANGED <<audioFiles, currentFileIndex, playbackPosition, playing,
                   finished, aloc, out>>

\* fillBuffer: the index check, then the copy loop from playbackPosition
FillRead ==
    /\ apc = "fill_read"
    /\ IF currentFileIndex < 0 \/ currentFileIndex >= Len(audioFiles)
         THEN /\ out' = [out EXCEPT !.source = "silence"]
              /\ filesMutex' = "free"
              /\ apc' = AfterFill
              /\ UNCHANGED aloc
         ELSE LET totalSamples == audioFiles[currentFileIndex + 1]
                  samplesNeeded == NumFrames * 2
                  left == Max2(0, totalSamples - playbackPosition)
                  samplesCopied == Min2(samplesNeeded, left)
              IN  /\ out' = [out EXCEPT !.source = "file"]
                  /\ aloc' = [aloc EXCEPT
                                !.pos = playbackPosition + samplesCopied]
                  /\ apc' = IF samplesCopied < samplesNeeded
                              THEN "fill_end" ELSE "fill_store"
                  /\ UNCHANGED filesMutex
    /\ freshPlay' = FALSE
    /\ FillRestUnchanged
    /\ UNCHANGED <<audioFiles, currentFileIndex, playbackPosition, playing,
                   finished>>

\* fillBuffer at the end of the file: playing.store(false)
FillEnd ==
    /\ apc = "fill_end"
    /\ playing' = FALSE
    /\ apc' = "fill_finished"
    /\ FillVarsUnchanged
    /\ UNCHANGED <<filesMutex, audioFiles, currentFileIndex, playbackPosition,
                   finished, aloc, out>>

\* fillBuffer at the end of the file: finished.store(true)
FillFinished ==
    /\ apc = "fill_finished"
    /\ finished' = TRUE
    /\ apc' = "fill_store"
    /\ FillVarsUnchanged
    /\ UNCHANGED <<filesMutex, audioFiles, currentFileIndex, playbackPosition,
                   playing, aloc, out>>

\* fillBuffer: playbackPosition.store(pos); return (the lock_guard unlocks)
FillStore ==
    /\ apc = "fill_store"
    /\ playbackPosition' = aloc.pos
    /\ aloc' = [aloc EXCEPT !.pos = 0]
    /\ filesMutex' = "free"
    /\ apc' = AfterFill
    /\ FillVarsUnchanged
    /\ UNCHANGED <<audioFiles, currentFileIndex, playing, finished, out>>

----------------------------------------------------------------------------
(* SpecPlayer: a control thread switches the mode, selects, starts and      *)
(* stops files and triggers the voice while the audio thread runs           *)
(* process().  The envelope times are short ones the setters store.         *)
(* release() against process() is the subject of SpecRT; it touches nothing *)
(* the file player or the mode switch reads.                                *)

\* The thread that operates the player and the voice: the GPIO callback thread.
PlayerThreads == {"c1"}

InitPlayer ==
    /\ par = [InitPar EXCEPT !.attackTime = setAttack(9),
                             !.releaseTime = setRelease(0)]
    /\ nCalls = 0
    /\ InitOutputIdle
    /\ InitEngineIdle

NextPlayer ==
    \/ \E t \in PlayerThreads : EnLock(t)
    \/ \E t \in PlayerThreads : EnLoad(t)
    \/ \E t \in PlayerThreads : EnMode(t)
    \/ \E t \in PlayerThreads : DisMode(t)
    \/ \E t \in PlayerThreads : DisStop(t)
    \/ \E t \in PlayerThreads : PlayPos(t)
    \/ \E t \in PlayerThreads : PlayFin(t)
    \/ \E t \in PlayerThreads : PlayOn(t)
    \/ \E t \in PlayerThreads : NameLock(t)
    \/ \E t \in PlayerThreads : NameRead(t)
    \/ \E t \in PlayerThreads : StopPlayback(t)
    \/ \E t \in PlayerThreads : SelLock(t)
    \/ \E t \in PlayerThreads : SelStore(t)
    \/ \E t \in PlayerThreads : TrLock(t)
    \/ \E t \in PlayerThreads : TrPhase(t)
    \/ \E t \in PlayerThreads : TrEnv(t)
    \/ \E t \in PlayerThreads : TrFlag(t)
    \/ AudioBegin
    \/ AudioLoad
    \/ AudioEnv
    \/ AudioLfo
    \/ AudioPitch
    \/ AudioOsc
    \/ AudioFx
    \/ AudioReverb
    \/ AudioOut
    \/ FillCheck
    \/ FillLock
    \/ FillRead
    \/ FillEnd
    \/ FillFinished
    \/ FillStore

SpecPlayer == InitPlayer /\ [][NextPlayer]_vars

\* C1: the audio thread is never at a lock acquisition inside process()
\* while a control thread holds that lock.
C1_AudioThreadNeverWaits ==
    ~(apc = "fill_lock" /\ filesMutex \in ControlThreads)

\* C32: play() starts playback from the beginning: once play() has
\* returned, the next fillBuffer() call finds the player playing and copies
\* from position 0 of the selected file, also when play() ran while a
\* fillBuffer() call was in progress on the audio thread.
C32_PlayStartsAtBeginning ==
    freshPlay =>
        /\ apc = "fill_check" => playing
        /\ (apc = "fill_read" /\ currentFileIndex < Len(audioFiles))
              => playbackPosition = 0

\* C33: the file player's finished flag is true only when playback has
\* reached the end of the file and has not been restarted since: playing
\* and finished are never both true, in any interleaving of play(), stop(),
\* selectFile() and fillBuffer().
C33_NeverPlayingAndFinished == ~(playing /\ finished)

\* C8: a process() call that found file-playback mode enabled delivers only
\* what the file player wrote and leaves the synthesis state alone; one that
\* found it disabled delivers synthesised samples and leaves the file
\* player's position and flags alone.
C8_ModesMutuallyExclusive ==
    [][ AudioStep =>
          /\ aloc'.mode = MP3Playback =>
                /\ UNCHANGED <<envValue, oscPhase, lfoPhase, delayWritePos,
                               springWriteIndex, inReleasePhase>>
                /\ out' /= out => out'.source \in {"file", "silence"}
          /\ aloc'.mode = Synthesis =>
                /\ UNCHANGED <<playbackPosition, playing, finished>>
                /\ out' /= out => out'.source = "synth" ]_vars

\* A buffer of file samples delivered in file-playback mode while the
\* envelope stood above zero and was left there.
C8_Witness ==
    /\ apc = "idle"
    /\ aloc.mode = MP3Playback
    /\ out.source = "file"
    /\ envValue > 0
    /\ oscPhase /= 0

----------------------------------------------------------------------------
(* SpecVoice: the samples of a synthesis buffer, from the reverb's output   *)
(* to the interleaved stereo buffer.  What the oscillator, envelope, delay  *)
(* and springs feed into the reverb's final mix is left open: any value of  *)
(* RawMixes, within and far beyond full scale.                              *)

RawMixes == {-3000, 400, 3000}

\* ReverbEffect::process, "Safety limiter": finalOut held to [-1, 1]
reverbLimit(finalOut) ==
    IF finalOut > 1000 THEN 1000
    ELSE IF finalOut < -1000 THEN -1000 ELSE finalOut

\* DCBlocker::coeff
DC_COEFF == 995

\* DCBlocker::processSample: y[n] = x[n] - x[n-1] + coeff * y[n-1]
dcProcessSample(input, xPrev, yPrev) ==
    input - xPrev + RoundDiv(DC_COEFF * yPrev, 1000)

\* DCBlocker::process over a buffer: <<outputs, xPrev, yPrev>> after it
RECURSIVE dcProcess(_, _, _)
dcProcess(inputs, xPrev, yPrev) ==
    IF inputs = <<>> THEN <<<<>>, xPrev, yPrev>>
    ELSE LET y == dcProcessSample(Head(inputs), xPrev, yPrev)
             rest == dcProcess(Tail(inputs), Head(inputs), y)
         IN  <<(<<y>> \o rest[1]), rest[2], rest[3]>>

\* filterBuffer[i] * vol
Scaled(sample, vol) == RoundDiv(sample * vol, 1000)

\* The sample written with the clamp left out.
VolumeNoClamp(sample, vol) == Scaled(sample, vol)

\* process(): float sample = clamp(filterBuffer[i] * vol, -1.0f, 1.0f)
VolumeClamp(sample, vol) == clamp(Scaled(sample, vol), -1000, 1000)

\* process(): output[i * 2] = sample; output[i * 2 + 1] = sample
RECURSIVE Interleave(_, _)
Interleave(filterBuffer, vol) ==
    IF filterBuffer = <<>> THEN <<>>
    ELSE LET sample == VolumeClamp(Head(filterBuffer), vol)
         IN  <<sample, sample>> \o Interleave(Tail(filterBuffer), vol)

VoiceVarsUnchanged ==
    UNCHANGED <<nCalls, outputVars, engineVars, playerVars, panelVars>>

\* setVolume(vol) between two buffers
VoiceSetVolume ==
    /\ \E v \in FloatInputs : par' = [par EXCEPT !.volume = setVolume(v)]
    /\ UNCHANGED voiceVars
    /\ VoiceVarsUnchanged

\* One synthesis buffer: reverb.process() limits each frame's mix, then
\* dcBlocker.process(), then vol = volume.get() and the output loop.
VoiceProcess ==
    /\ nBuffers < MaxVoiceBuffers
    /\ \E mixes \in [1..NumFrames -> RawMixes] :
          LET reverbOut == [i \in 1..NumFrames |-> reverbLimit(mixes[i])]
              dc == dcProcess(reverbOut, dcXPrev, dcYPrev)
              vol == par.volume
          IN  /\ dcXPrev' = dc[2]
              /\ dcYPrev' = dc[3]
              /\ preClamp' = [i \in 1..NumFrames |-> Scaled(dc[1][i], vol)]
              /\ output' = Interleave(dc[1], vol)
    /\ nBuffers' = nBuffers + 1
    /\ UNCHANGED <<par, currentFrequency, oscFrequency, frames, everTriggered,
                   sinceRelease, lastOp, releaseProgress, freshPlay,
                   unitVars, hostVars>>
    /\ VoiceVarsUnchanged

InitVoice ==
    /\ par = InitPar
    /\ nCalls = 0
    /\ InitOutputIdle
    /\ InitEngineIdle

NextVoice ==
    \/ VoiceSetVolume
    \/ VoiceProcess

SpecVoice == InitVoice /\ [][NextVoice]_vars

\* C7: every sample of a synthesis buffer lies in [-1, 1] and the left and
\* right sample of each frame are equal, whatever the volume and whatever
\* the stages before the output loop delivered.
C7_OutputClampedAndMono ==
    /\ \A k \in 1..Len(output) : output[k] >= -1000 /\ output[k] <= 1000
    /\ \A i \in 1..(Len(output) \div 2) : output[2 * i - 1] = output[2 * i]

\* A buffer in which the DC blocker pushed a frame beyond full scale and the
\* frame was written as exactly full scale on both channels.
C7_Witness ==
    /\ Len(output) = 2 * NumFrames
    /\ \E i \in 1..Len(preClamp) :
          /\ preClamp[i] > 1000
          /\ output[2 * i - 1] = 1000
          /\ output[2 * i] = 1000

----------------------------------------------------------------------------
(* SpecParams: any sequence of setter calls, each with any input.          *)

SetFloat(field, stored) ==
    /\ nCalls < MaxSetterCalls
    /\ par' = [par EXCEPT ![field] = stored]
    /\ nCalls' = nCalls + 1
    /\ UNCHANGED <<outputVars, engineVars, playerVars, voiceVars, panelVars>>

CallSetVolume == \E x \in FloatInputs : SetFloat("volume", setVolume(x))
CallSetFrequency == \E x \in FloatInputs : SetFloat("baseFrequency", setFrequency(x))
CallSetLfoPitchDepth == \E x \in FloatInputs : SetFloat("lfoPitchDepth", setLfoPitchDepth(x))
CallSetAttackTime == \E x \in FloatInputs : SetFloat("attackTime", setAttack(x))
CallSetReleaseTime == \E x \in FloatInputs : SetFloat("releaseTime", setRelease(x))
CallSetLfoRate == \E x \in FloatInputs : SetFloat("lfoFrequency", lfoSetFrequency(x))
CallSetLfoDepth == \E x \in FloatInputs : SetFloat("lfoDepth", lfoSetDepth(x))
CallSetDelayTime == \E x \in FloatInputs : SetFloat("delayTime", setDelayTime(x))
CallSetDelayFeedback == \E x \in FloatInputs : SetFloat("delayFeedback", setFeedback(x))
CallSetDelayMix == \E x \in FloatInputs : SetFloat("delayDryWet", delaySetDryWet(x))
CallSetReverbSize == \E x \in FloatInputs : SetFloat("springDecay", reverbClamp(x))
CallSetReverbDamping == \E x \in FloatInputs : SetFloat("damping", reverbClamp(x))

\* ReverbEffect::setDryWet: wet = clamp(mix); dry = 1.0f - wet
CallSetReverbMix ==
    \E x \in FloatInputs :
        /\ nCalls < MaxSetterCalls
        /\ par' = [par EXCEPT !.wet = reverbClamp(x), !.dry = 1000 - reverbClamp(x)]
        /\ nCalls' = nCalls + 1
        /\ UNCHANGED <<outputVars, engineVars, playerVars, voiceVars,
                       panelVars>>

\* AudioEngine::setWaveform(Waveform) and setWaveform(int)
CallSetWaveform == \E wf \in Waveforms : SetFloat("oscWaveform", wf)
CallSetWaveformIndex == \E i \in IndexInputs : SetFloat("oscWaveform", WaveformOfIndex(i))

\* AudioEngine::setLfoWaveform(Waveform) and setLfoWaveform(int)
CallSetLfoWaveform == \E wf \in Waveforms : SetFloat("lfoWaveform", wf)
CallSetLfoWaveformIndex == \E i \in IndexInputs : SetFloat("lfoWaveform", WaveformOfIndex(i))

\* AudioEngine::setPitchEnvelopeMode
CallSetPitchEnvelopeMode == \E m \in PitchEnvelopeModes : SetFloat("pitchEnvMode", m)

\* AudioEngine::cyclePitchEnvelope: None -> Up -> Down -> None
NextPitchMode(m) ==
    CASE m = PitchNone -> PitchUp
      [] m = PitchUp   -> PitchDown
      [] OTHER         -> PitchNone

CallCyclePitchEnvelope == SetFloat("pitchEnvMode", NextPitchMode(par.pitchEnvMode))

InitParams ==
    /\ par = InitPar
    /\ nCalls = 0
    /\ InitOutputIdle
    /\ InitEngineIdle

NextParams ==
    \/ CallSetVolume
    \/ CallSetFrequency
    \/ CallSetLfoPitchDepth
    \/ CallSetAttackTime
    \/ CallSetReleaseTime
    \/ CallSetLfoRate
    \/ CallSetLfoDepth
    \/ CallSetDelayTime
    \/ CallSetDelayFeedback
    \/ CallSetDelayMix
    \/ CallSetReverbSize
    \/ CallSetReverbDamping
    \/ CallSetReverbMix
    \/ CallSetWaveform
    \/ CallSetWaveformIndex
    \/ CallSetLfoWaveform
    \/ CallSetLfoWaveformIndex
    \/ CallSetPitchEnvelopeMode
    \/ CallCyclePitchEnvelope

SpecParams == InitParams /\ [][NextParams]_vars

----------------------------------------------------------------------------
(* C5 *)

InRange(x, lo, hi) == lo <= x /\ x <= hi

\* C5: after any sequence of setter calls with any inputs, every stored
\* parameter lies in its documented range: volume [0,1], base frequency
\* [20,20000] Hz, waveform one of Sine/Square/Saw/Triangle, attack and release
\* time [0.001,5.0] s, LFO rate [0.1,20] Hz, LFO depths [0,1], delay time
\* [0.001,2.0] s, delay feedback [0,0.95], delay and reverb mix, reverb size and
\* damping [0,1], pitch-envelope mode one of None/Up/Down.
C5_AllParametersInRange ==
    /\ InRange(par.volume, 0, 1000)
    /\ InRange(par.baseFrequency, 20000, 20000000)
    /\ par.oscWaveform \in Waveforms
    /\ par.lfoWaveform \in Waveforms
    /\ InRange(par.attackTime, 1, 5000)
    /\ InRange(par.releaseTime, 1, 5000)
    /\ InRange(par.lfoFrequency, 100, 20000)
    /\ InRange(par.lfoDepth, 0, 1000)
    /\ InRange(par.lfoPitchDepth, 0, 1000)
    /\ InRange(par.delayTime, 1, 2000)
    /\ InRange(par.delayFeedback, 0, 950)
    /\ InRange(par.delayDryWet, 0, 1000)
    /\ InRange(par.wet, 0, 1000)
    /\ InRange(par.springDecay, 0, 1000)
    /\ InRange(par.damping, 0, 1000)
    /\ par.pitchEnvMode \in PitchEnvelopeModes

----------------------------------------------------------------------------
(* SpecOutput: AudioOutput (the ALSA version with real-time priority) and   *)
(* the part of main() that starts and stops it.  The device's answers       *)
(* (open, configure, write, recover) are the environment's choice.          *)

InitOutput ==
    /\ par = InitPar
    /\ nCalls = 0
    /\ haveAlsa \in BOOLEAN
    /\ InitOutputRest
    /\ InitEngineRest
    /\ InitUnits
    /\ arch \in Architectures
    /\ InitHostRest

OutputRestUnchanged ==
    UNCHANGED <<paramVars, engineVars, playerVars, voiceRest,
                releaseProgress, freshPlay, unitVars, panelVars, haveAlsa,
                arch>>

OutputVarsUnchanged ==
    /\ OutputRestUnchanged
    /\ UNCHANGED <<flushToZero, mlockRequested>>

OutputOnlyMainMoves ==
    UNCHANGED <<running, audioThread, lpc, pcm, loopExit, startResult,
                totalBuffers, underruns, consecutiveUnderruns, pcmCloses,
                pcmMisuse, buffersAfterStop, writes, recoveredLog>>

\* enableFlushToZero without a branch for the architecture
enableFlushToZeroNowhere(a) == FALSE

\* enableFlushToZero(): whether the calling thread's FZ bit is set after it,
\* on architecture a: the FZ bit of FPCR (aarch64) or FPSCR (arm), FZ and
\* DAZ of MXCSR (x86); the function has no other branch.
enableFlushToZero(a) == a \in {"aarch64", "arm", "x86_64"}

\* main(): enableFlushToZero(), after the arguments and the signal handlers
MainFlushToZero ==
    /\ mpc = "init"
    /\ flushToZero' = [flushToZero EXCEPT !.main = enableFlushToZero(arch)]
    /\ mpc' = "mlock"
    /\ UNCHANGED mlockRequested
    /\ OutputRestUnchanged
    /\ OutputOnlyMainMoves

\* main(): #ifdef __linux__ mlockall(MCL_CURRENT | MCL_FUTURE); a failure
\* is a warning and main goes on.  A build with ALSA is a Linux build; one
\* without may be either.
MainLockPages ==
    /\ mpc = "mlock"
    /\ mlockRequested' \in (IF haveAlsa THEN {TRUE} ELSE BOOLEAN)
    /\ mpc' = "create"
    /\ UNCHANGED flushToZero
    /\ OutputRestUnchanged
    /\ OutputOnlyMainMoves

\* What AudioOutput::start() returns, given the build: with HAVE_ALSA it
\* returns true on both of its paths (already running; thread created);
\* without it, false.
StartReturns(alsa) == alsa

\* main(): audioOutput->start().  AudioOutput::start() with HAVE_ALSA: if
\* already running return true; else running.store(true), create the thread,
\* return true.  The device is opened later, by the thread.  The thread
\* std::thread creates begins with the floating-point control register of
\* its creator (pthread_create: the new thread inherits the calling
\* thread's floating-point environment); audioLoop does not set it.
MainStart ==
    /\ mpc = "create"
    /\ IF haveAlsa /\ ~running
         THEN /\ running' = TRUE
              /\ audioThread' = "joinable"
              /\ lpc' = "open"
              /\ flushToZero' =
                    [flushToZero EXCEPT !.audio = flushToZero.main]
         ELSE UNCHANGED <<running, audioThread, lpc, flushToZero>>
    /\ startResult' = StartReturns(haveAlsa)
    /\ mpc' = "started"
    /\ UNCHANGED mlockRequested
    /\ OutputRestUnchanged
    /\ UNCHANGED <<pcm, loopExit, totalBuffers, underruns,
                   consecutiveUnderruns, pcmCloses, pcmMisuse,
                   buffersAfterStop, writes, recoveredLog>>

\* main(): if (!audioOutput->start()) { "Failed to start audio output";
\* return 1; } ... "Dub Siren is running!"
MainAfterStart ==
    /\ mpc = "started"
    /\ mpc' = IF startResult = TRUE THEN "running" ELSE "failed"
    /\ OutputVarsUnchanged
    /\ UNCHANGED <<running, audioThread, lpc, pcm, loopExit, startResult,
                   totalBuffers, underruns, consecutiveUnderruns, pcmCloses,
                   pcmMisuse, buffersAfterStop, writes, recoveredLog>>

\* main(): the main loop ends (g_running false) and audioOutput->stop() is
\* called.  AudioOutput::stop(): if (!running) return; running.store(false);
\* then join.
MainStop ==
    /\ mpc = "running"
    /\ IF ~running
         THEN /\ mpc' = "stopped"
              /\ UNCHANGED running
         ELSE /\ running' = FALSE
              /\ mpc' = "joining"
    /\ OutputVarsUnchanged
    /\ UNCHANGED <<audioThread, lpc, pcm, loopExit, startResult,
                   totalBuffers, underruns, consecutiveUnderruns, pcmCloses,
                   pcmMisuse, buffersAfterStop, writes, recoveredLog>>

\* AudioOutput::stop(): if (audioThread.joinable()) audioThread.join();
\* join returns once audioLoop has returned.
MainJoin ==
    /\ mpc = "joining"
    /\ IF audioThread = "joinable"
         THEN /\ lpc = "exited"
              /\ audioThread' = "joined"
         ELSE UNCHANGED audioThread
    /\ mpc' = "stopped"
    /\ OutputVarsUnchanged
    /\ UNCHANGED <<running, lpc, pcm, loopExit, startResult, totalBuffers,
                   underruns, consecutiveUnderruns, pcmCloses, pcmMisuse,
                   buffersAfterStop, writes, recoveredLog>>

\* main() returns and the unique_ptr destroys the AudioOutput:
\* ~AudioOutput() calls stop(), which finds running false here and returns;
\* then the std::thread member is destroyed, and a thread still joinable
\* makes its destructor call std::terminate.
MainDestroy ==
    /\ mpc \in {"stopped", "failed"}
    /\ ~running
    /\ mpc' = IF audioThread = "joinable" THEN "terminated" ELSE "destroyed"
    /\ OutputVarsUnchanged
    /\ UNCHANGED <<running, audioThread, lpc, pcm, loopExit, startResult,
                   totalBuffers, underruns, consecutiveUnderruns, pcmCloses,
                   pcmMisuse, buffersAfterStop, writes, recoveredLog>>

\* audioLoop(): setRealtimePriority(); snd_pcm_open(); on failure
\* running.store(false); return.
LoopOpen ==
    /\ lpc = "open"
    /\ \E ok \in BOOLEAN :
         IF ok
           THEN /\ pcm' = "open"
                /\ lpc' = "configure"
                /\ UNCHANGED <<running, loopExit>>
           ELSE /\ running' = FALSE
                /\ lpc' = "exited"
                /\ loopExit' = "open_failed"
                /\ UNCHANGED pcm
    /\ OutputVarsUnchanged
    /\ UNCHANGED <<audioThread, mpc, startResult, totalBuffers, underruns,
                   consecutiveUnderruns, pcmCloses, pcmMisuse,
                   buffersAfterStop, writes, recoveredLog>>

\* The failure path of the fallback configuration without its
\* snd_pcm_close.
ConfigFailureLeaks == FALSE

\* audioLoop(), failure of snd_pcm_set_params: snd_pcm_close(pcm) is called
\* before running.store(false); return.
ConfigFailureCloses == TRUE

\* audioLoop(): if (!configureAlsa(pcm)) { err = snd_pcm_set_params(...);
\* if (err < 0) { snd_pcm_close(pcm); running.store(false); return; } }
LoopConfigure ==
    /\ lpc = "configure"
    /\ pcmMisuse' = (pcmMisuse \/ pcm /= "open")
    /\ \E configured \in BOOLEAN, fallback \in BOOLEAN :
         IF configured \/ fallback
           THEN /\ lpc' = "check"
                /\ UNCHANGED <<pcm, pcmCloses, running, loopExit>>
           ELSE /\ IF ConfigFailureCloses
                     THEN /\ pcm' = "closed"
                          /\ pcmCloses' = pcmCloses + 1
                     ELSE UNCHANGED <<pcm, pcmCloses>>
                /\ running' = FALSE
                /\ lpc' = "exited"
                /\ loopExit' = "config_failed"
    /\ OutputVarsUnchanged
    /\ UNCHANGED <<audioThread, mpc, startResult, totalBuffers, underruns,
                   consecutiveUnderruns, buffersAfterStop, writes,
                   recoveredLog>>

\* A loop that never looks at the flag.
LoopIgnoresStop(flag) == TRUE

\* audioLoop(): while (running.load()): the loop goes on iff the flag is set
LoopContinues(flag) == flag

\* audioLoop(): the loop condition, evaluated before every pass
LoopCheck ==
    /\ lpc = "check"
    /\ lpc' = IF LoopContinues(running) THEN "buffer" ELSE "drain"
    /\ OutputVarsUnchanged
    /\ UNCHANGED <<running, audioThread, pcm, loopExit, mpc, startResult,
                   totalBuffers, underruns, consecutiveUnderruns, pcmCloses,
                   pcmMisuse, buffersAfterStop, writes, recoveredLog>>

\* The consecutive counter left standing after the burst has been logged.
KeepAfterLog(n) == n

\* audioLoop(): consecutiveUnderruns = 0 after the burst has been logged
ResetAfterLog(n) == 0

\* audioLoop(): one pass of the loop body: engine.process, conversion,
\* snd_pcm_writei; on a negative result the underrun counters go up and
\* snd_pcm_recover runs; otherwise a finished burst is logged and the
\* consecutive counter is reset; totalBuffers.fetch_add(1).  The model lets
\* the loop run MaxBuffers passes, and the pass in progress when stop() is
\* called.
LoopBuffer ==
    /\ lpc = "buffer"
    /\ totalBuffers < MaxBuffers \/ mpc = "joining"
    /\ pcmMisuse' = (pcmMisuse \/ pcm /= "open")
    /\ \E written \in BOOLEAN :
         /\ writes' = Append(writes, written)
         /\ IF written
              THEN /\ IF consecutiveUnderruns > 0
                        THEN /\ recoveredLog' =
                                   Append(recoveredLog, consecutiveUnderruns)
                             /\ consecutiveUnderruns' =
                                   ResetAfterLog(consecutiveUnderruns)
                        ELSE UNCHANGED <<recoveredLog, consecutiveUnderruns>>
                   /\ UNCHANGED underruns
              ELSE /\ underruns' = underruns + 1
                   /\ consecutiveUnderruns' = consecutiveUnderruns + 1
                   /\ UNCHANGED recoveredLog
    /\ totalBuffers' = totalBuffers + 1
    /\ buffersAfterStop' =
          IF mpc = "joining" THEN buffersAfterStop + 1 ELSE buffersAfterStop
    /\ lpc' = "check"
    /\ OutputVarsUnchanged
    /\ UNCHANGED <<running, audioThread, pcm, loopExit, mpc, startResult,
                   pcmCloses>>

\* audioLoop(): snd_pcm_drain(pcm); snd_pcm_close(pcm); return
LoopDrain ==
    /\ lpc = "drain"
    /\ pcmMisuse' = (pcmMisuse \/ pcm /= "open")
    /\ pcm' = "closed"
    /\ pcmCloses' = pcmCloses + 1
    /\ lpc' = "exited"
    /\ loopExit' = "stopped"
    /\ OutputVarsUnchanged
    /\ UNCHANGED <<running, audioThread, mpc, startResult, totalBuffers,
                   underruns, consecutiveUnderruns, buffersAfterStop, writes,
                   recoveredLog>>

LoopStep ==
    LoopOpen \/ LoopConfigure \/ LoopCheck \/ LoopBuffer \/ LoopDrain

NextOutput ==
    \/ MainFlushToZero
    \/ MainLockPages
    \/ MainStart
    \/ MainAfterStart
    \/ MainStop
    \/ MainJoin
    \/ MainDestroy
    \/ LoopOpen
    \/ LoopConfigure
    \/ LoopCheck
    \/ LoopBuffer
    \/ LoopDrain

SpecOutput == InitOutput /\ [][NextOutput]_vars

\* The audio thread is scheduled and the device answers every call, and
\* join returns once the thread has ended.
SpecOutputFair ==
    SpecOutput /\ WF_vars(LoopStep) /\ WF_vars(MainJoin)

\* C10: if the audio device cannot be opened or configured, start() reports
\* a failed-to-start condition to its caller (returns false), so main never
\* goes on as if audio were running when no audio loop is running.
C10_DeviceFailureReportedByStart ==
    loopExit \in {"open_failed", "config_failed"} => startResult = FALSE

\* C10, seen from main: main is never past its start() check, announcing
\* that the siren is running, while the loop has ended on a device failure.
C10_MainNeverRunsWithoutAudio ==
    ~(mpc = "running" /\ loopExit \in {"open_failed", "config_failed"})

\* C11: whenever start() created the audio thread, stop() has joined it by
\* the time it returns, also when the thread ended by itself on a device
\* failure: past stop(), the thread handle is never still joinable.
C11_ThreadJoinedWhenStopReturns ==
    mpc \in {"stopped", "destroyed", "terminated"}
        => audioThread /= "joinable"

\* C12: the device handle the audio thread opened is closed exactly once
\* before the thread exits, on the normal path and on the failure of the
\* fallback configuration alike, no ALSA call is made on a handle that is
\* not open, and nothing is closed when nothing was opened.
C12_DeviceClosedExactlyOnce ==
    /\ ~pcmMisuse
    /\ pcmCloses <= 1
    /\ (lpc = "exited" /\ loopExit /= "open_failed")
          => (pcmCloses = 1 /\ pcm = "closed")
    /\ loopExit = "open_failed" => (pcmCloses = 0 /\ pcm = "null")
    /\ pcm = "closed" => lpc = "exited"

\* The thread has ended on the failure of the fallback configuration and
\* closed the handle it had opened.
C12_Witness ==
    /\ lpc = "exited"
    /\ loopExit = "config_failed"
    /\ pcmCloses = 1
    /\ pcm = "closed"

\* C13: once stop() has cleared the flag the loop runs at most the pass in
\* progress, and then drains and closes the device and ends, so that stop()
\* returns.
C13_StopSeenOnBufferBoundary ==
    /\ [](buffersAfterStop <= 1)
    /\ (mpc = "joining")
          ~> (mpc = "stopped" /\ lpc = "exited" /\ pcm /= "open")

\* stop() has returned after the loop finished the one pass that was in
\* progress when the flag was cleared.
C13_Witness ==
    /\ mpc = "stopped"
    /\ loopExit = "stopped"
    /\ buffersAfterStop = 1
    /\ audioThread = "joined"

\* The lengths of the maximal runs of failed writes in ws that a successful
\* write has ended, in order; run is the length of the run in progress.
RECURSIVE RunsRecovered(_, _)
RunsRecovered(ws, run) ==
    IF ws = <<>> THEN <<>>
    ELSE IF Head(ws)
           THEN (IF run > 0 THEN <<run>> ELSE <<>>)
                   \o RunsRecovered(Tail(ws), 0)
           ELSE RunsRecovered(Tail(ws), run + 1)

\* C19: the "underrun(s) recovered" lines logged so far are exactly one per
\* maximal run of failed writes that a successful write has ended, each
\* carrying the length of its run; a run still going on has no line.
C19_UnderrunsCoalesced ==
    recoveredLog = RunsRecovered(writes, 0)

\* A burst of two failed writes was logged as one line, and a later burst
\* is in progress without a line.
C19_Witness ==
    /\ recoveredLog = <<2>>
    /\ Len(writes) = 4
    /\ ~writes[4]
    /\ consecutiveUnderruns = 1


----------------------------------------------------------------------------
(* SpecSiren: the voice, frame by frame.  Between two process() calls a     *)
(* control thread calls trigger(), release() and setters; process() then    *)
(* computes a synthesis buffer: envelope, release pitch sweep, LFO pitch    *)
(* modulation, frequency smoothing, oscillator, envelope applied.  What the *)
(* LFO and the oscillator deliver is the environment's choice among         *)
(* extreme values.                                                          *)

MaxSirenBuffers == 5    \* process() calls SpecSiren follows
MaxSince == 9           \* cap of sinceRelease
MaxSirenSets == 1       \* setter calls SpecSiren follows

\* frequencySmooth(440.0f, 0.08f): the smoothing coefficient
SMOOTH_COEFF == 80

\* std::pow(2.0f, x) for x in [-2, 2] (thousandths of an octave): exact at
\* every half octave, linear in between.  std::pow(4.0f, p) is Pow2(2 * p)
\* and std::pow(0.25f, p) is Pow2(-2 * p).
Pow2Table == <<250, 354, 500, 707, 1000, 1414, 2000, 2828, 4000>>

Pow2(x) ==
    LET y == clamp(x, -2000, 2000) + 2000
        k == y \div 500
        r == y % 500
    IN  IF k = 8 THEN Pow2Table[9]
        ELSE Pow2Table[k + 1]
               + RoundDiv((Pow2Table[k + 2] - Pow2Table[k + 1]) * r, 500)

\* a * m for a quantity a and a factor m, both in thousandths: the product
\* rounded to the nearest thousandth, computed without leaving 32 bits.
MulThousandths(a, m) ==
    IF a >= 0
      THEN (a \div 1000) * m + RoundDiv((a % 1000) * m, 1000)
      ELSE -((((-a) \div 1000) * m) + RoundDiv(((-a) % 1000) * m, 1000))

\* A sweep of three octaves instead of two.
SweepTargetWide(baseFreq, pitchMode, sweeping, envV, startLevel) ==
    IF ~sweeping THEN baseFreq
    ELSE LET progress == ReleaseProgress(envV, startLevel)
         IN  IF pitchMode = PitchUp
               THEN MulThousandths(MulThousandths(baseFreq, Pow2(2 * progress)),
                                   Pow2(progress))
               ELSE MulThousandths(MulThousandths(baseFreq, Pow2(-2 * progress)),
                                   Pow2(-progress))

\* process(): targetFreq after "Apply pitch envelope during release phase"
SweepTarget(baseFreq, pitchMode, sweeping, envV, startLevel) ==
    IF ~sweeping THEN baseFreq
    ELSE LET progress == ReleaseProgress(envV, startLevel)
         IN  IF pitchMode = PitchUp
               THEN MulThousandths(baseFreq, Pow2(2 * progress))
               ELSE MulThousandths(baseFreq, Pow2(-2 * progress))

\* process(): targetFreq after "Apply LFO pitch modulation (if enabled)"
LfoTarget(targetFreq, lfoSample, pitchDepth) ==
    IF pitchDepth > 1
      THEN MulThousandths(targetFreq,
                          Pow2(RoundDiv(lfoSample * pitchDepth, 1000)))
      ELSE targetFreq

\* SmoothedValue::getNext: current += (target - current) * coeff
SmoothNext(current, target) ==
    current + MulThousandths(target - current, SMOOTH_COEFF)

\* An oscillator that takes the frequency it is given as it is.
oscillatorTakesAnyFrequency(freq) == freq

\* Oscillator::setFrequency: frequency = clamp(freq, 20.0f, 20000.0f)
oscillatorSetFrequency(freq) == clamp(freq, 20000, 20000000)

\* process(), "Apply envelope": 0 below 0.001, else the sample times it
ApplyEnvelope(sample, envV) ==
    IF envV < 1 THEN 0 ELSE RoundDiv(sample * envV, 1000)

\* Samples the release needs to reach its 99%-decay point: the release time
\* in samples, rounded up.
N99(releaseMs) == (releaseMs * SampleRate + 999) \div 1000

\* One frame of process(): st holds the members the frame loop updates, in
\* the frame's LFO and oscillator sample.
SirenFrame(st, in) ==
    LET envV == EnvelopeSample(st.env, envActive, par.attackTime,
                               par.releaseTime)
        sweeping == st.rel /\ par.pitchEnvMode /= PitchNone
        sweepT == SweepTarget(par.baseFrequency, par.pitchEnvMode, sweeping,
                              envV, pitchEnvStartLevel)
        target == LfoTarget(sweepT, in.lfo, par.lfoPitchDepth)
        cur == SmoothNext(st.cur, target)
        osc == oscillatorSetFrequency(cur)
        since == Min2(st.since + 1, MaxSince)
        rel == ReleasePhaseAfter(st.rel, sweeping, envV)
    IN  [ env |-> envV,
          rel |-> rel,
          cur |-> cur,
          osc |-> osc,
          since |-> since,
          trace |-> Append(st.trace,
                      [ env |-> envV, sweeping |-> sweeping,
                        base |-> par.baseFrequency,
                        mode |-> par.pitchEnvMode,
                        depth |-> par.lfoPitchDepth,
                        release |-> par.releaseTime,
                        sweepTarget |-> sweepT, prev |-> st.cur,
                        current |-> cur, osc |-> osc, since |-> since,
                        rel |-> rel, startLevel |-> pitchEnvStartLevel,
                        voice |-> ApplyEnvelope(in.osc, envV) ]) ]

RECURSIVE SirenFrames(_, _)
SirenFrames(st, ins) ==
    IF ins = <<>> THEN st
    ELSE LET next == SirenFrame(st, Head(ins))
         IN  IF next.since > 0 THEN SirenFrames(next, Tail(ins)) ELSE next

OscSamples == {-1000, 1000}     \* what the oscillator delivers in a buffer

\* LFO::generateSample: the waveform's value at a phase (thousandths of a
\* cycle) times depth.  The sine is linearised between its quarter points.
LfoGenerateSample(waveform, phase, depth) ==
    LET value ==
          CASE waveform = 0 ->
                 IF phase < 250 THEN 4 * phase
                 ELSE IF phase < 750 THEN 2000 - 4 * phase
                 ELSE 4 * phase - 4000
            [] waveform = 1 -> IF phase < 500 THEN 1000 ELSE -1000
            [] waveform = 2 -> 2 * phase - 1000
            [] OTHER -> IF phase < 500 THEN 4 * phase - 1000
                        ELSE 3000 - 4 * phase
    IN  RoundDiv(value * depth, 1000)

\* lfo.generate(): the samples of a buffer of n frames
LfoBuffer(n) ==
    [i \in 1..n |->
        LfoGenerateSample(par.lfoWaveform,
                          (((lfoPhase + i - 1) % PhaseSteps) * 1000)
                              \div PhaseSteps,
                          par.lfoDepth)]

SirenOpUnchanged ==
    UNCHANGED <<outputVars, playerVars, panelVars, audioMode, delayWritePos,
                springWriteIndex, triggerMutex, apc, aloc, out, cpc,
                storedDuring, dcXPrev, dcYPrev, preClamp, output,
                releaseProgress, freshPlay, unitVars, hostVars>>

\* AudioEngine::process, synthesis path, down to "Apply envelope", for a
\* buffer of n frames
ProcessBuffer(n) ==
    /\ \E oscSample \in OscSamples :
          LET lfoBuffer == LfoBuffer(n)
              ins == [i \in 1..n |-> [lfo |-> lfoBuffer[i], osc |-> oscSample]]
              st == SirenFrames([env |-> envValue, rel |-> inReleasePhase,
                                 cur |-> currentFrequency,
                                 osc |-> oscFrequency,
                                 since |-> sinceRelease, trace |-> <<>>], ins)
          IN  /\ envValue' = st.env
              /\ inReleasePhase' = st.rel
              /\ currentFrequency' = st.cur
              /\ oscFrequency' = st.osc
              /\ sinceRelease' = st.since
              /\ frames' = st.trace
    /\ oscPhase' = (oscPhase + n) % PhaseSteps
    /\ lfoPhase' = (lfoPhase + n) % PhaseSteps
    /\ nBuffers' = nBuffers + 1
    /\ lastOp' = "process"
    /\ UNCHANGED <<paramVars, envActive, pitchEnvStartLevel, everTriggered>>
    /\ SirenOpUnchanged

SirenProcess ==
    /\ nBuffers < MaxSirenBuffers
    /\ ProcessBuffer(NumFrames)

\* AudioEngine::trigger, the whole call
SirenTrigger ==
    /\ oscPhase' = 0
    /\ envActive' = TRUE
    /\ inReleasePhase' = FALSE
    /\ everTriggered' = TRUE
    /\ sinceRelease' = 0
    /\ frames' = <<>>
    /\ lastOp' = "trigger"
    /\ UNCHANGED <<paramVars, envValue, pitchEnvStartLevel, currentFrequency,
                   oscFrequency, nBuffers, lfoPhase>>
    /\ SirenOpUnchanged

\* An Envelope::release that stores true.
ReleaseStoresTrue == TRUE

\* Envelope::release: active.store(false)
ReleaseStores == FALSE

\* AudioEngine::release, the whole call
SirenRelease ==
    /\ pitchEnvStartLevel' = envValue
    /\ inReleasePhase' = TRUE
    /\ envActive' = ReleaseStores
    /\ sinceRelease' = 0
    /\ frames' = <<>>
    /\ lastOp' = "release"
    /\ UNCHANGED <<paramVars, envValue, oscPhase, lfoPhase, currentFrequency,
                   oscFrequency, nBuffers, everTriggered>>
    /\ SirenOpUnchanged

\* A setWaveform that restarts the cycle.
PhaseResetBySetWaveform(phase) == 0

\* Oscillator::setWaveform: waveform = wf, and the phase as it was
PhaseAfterSetWaveform(phase) == phase

SirenSet(op, field, stored) ==
    /\ nCalls < MaxSirenSets
    /\ par' = [par EXCEPT ![field] = stored]
    /\ nCalls' = nCalls + 1
    /\ lastOp' = op
    /\ oscPhase' = IF op = "setWaveform" THEN PhaseAfterSetWaveform(oscPhase)
                                         ELSE oscPhase
    /\ UNCHANGED <<envActive, envValue, inReleasePhase, pitchEnvStartLevel,
                   lfoPhase, currentFrequency, oscFrequency, frames,
                   everTriggered, sinceRelease, nBuffers>>
    /\ SirenOpUnchanged

SirenFrequencies == {0, 30000000}
SirenDepths == {3000}
SirenReleases == {15}
SirenWaveforms == {0}
SirenModes == {PitchNone, PitchDown}

SirenSetFrequency ==
    \E x \in SirenFrequencies :
        SirenSet("setFrequency", "baseFrequency", setFrequency(x))
SirenSetWaveform ==
    \E wf \in SirenWaveforms : SirenSet("setWaveform", "oscWaveform", wf)
SirenSetPitchEnvelopeMode ==
    \E m \in SirenModes : SirenSet("setPitchEnvelopeMode", "pitchEnvMode", m)
SirenSetLfoPitchDepth ==
    \E x \in SirenDepths :
        SirenSet("setLfoPitchDepth", "lfoPitchDepth", setLfoPitchDepth(x))
SirenSetReleaseTime ==
    \E x \in SirenReleases :
        SirenSet("setReleaseTime", "releaseTime", setRelease(x))

InitSiren ==
    /\ par = [InitPar EXCEPT !.releaseTime = setRelease(0)]
    /\ nCalls = 0
    /\ InitOutputIdle
    /\ InitEngineIdle

NextSiren ==
    \/ SirenTrigger
    \/ SirenRelease
    \/ SirenSetFrequency
    \/ SirenSetWaveform
    \/ SirenSetPitchEnvelopeMode
    \/ SirenSetLfoPitchDepth
    \/ SirenSetReleaseTime
    \/ SirenProcess

SpecSiren == InitSiren /\ [][NextSiren]_vars


\* The frames of the last buffer that were generated after a release() that
\* followed a trigger(), with no trigger() since.
ReleasedFrames ==
    IF everTriggered /\ ~envActive THEN {k \in 1..Len(frames) : TRUE} ELSE {}

\* C14: after trigger() and then release(), with no further trigger(), every
\* frame from the release time's 99%-decay point on has an envelope value
\* below 0.01, and from then on the voice's own sample (the oscillator's
\* sample with the envelope applied, before the delay and the reverb) is
\* silent: below 0.001 in magnitude.
C14_SilentAfterRelease ==
    \A k \in ReleasedFrames :
        frames[k].since >= N99(frames[k].release) =>
            /\ frames[k].env < 10
            /\ frames[k].voice < 1
            /\ frames[k].voice > -1


\* C17: trigger() is the only operation that resets the oscillator phase:
\* in every step of setWaveform, setFrequency, release() and the other
\* setters the phase stays where the audio thread last advanced it.
C17_OnlyTriggerResetsPhase ==
    [][lastOp' \notin {"trigger", "process"} => oscPhase' = oscPhase]_vars

\* The waveform was switched while the voice was sounding, in the middle of
\* a cycle, and the phase is still where process() left it.
C17_Witness ==
    /\ lastOp = "setWaveform"
    /\ envActive
    /\ nBuffers > 0
    /\ oscPhase /= 0

\* C18: release() on a voice that was never triggered completes like any
\* other call; the envelope stays inactive at level 0 and every frame of the
\* voice is silent until the first trigger().
C18_ReleaseWithoutTrigger ==
    ~everTriggered =>
        /\ ~envActive
        /\ envValue = 0
        /\ \A k \in 1..Len(frames) : frames[k].env = 0 /\ frames[k].voice = 0

\* release() was called on the never-triggered voice (it captured level 0)
\* and a buffer was computed afterwards.
C18_Witness ==
    /\ ~everTriggered
    /\ pitchEnvStartLevel = 0
    /\ lastOp = "process"
    /\ Len(frames) = NumFrames
    /\ \A k \in 1..Len(frames) : frames[k].voice = 0


\* C28: after release() the engine leaves the release phase once the
\* envelope has dropped below 0.001: from the first sample whose envelope
\* value is below it the release-phase flag is false, in every
\* pitch-envelope mode.
C28_ReleasePhaseEnds ==
    \A k \in 1..Len(frames) : frames[k].env < 1 => ~frames[k].rel

\* C28, with the pitch envelope on: in modes Up and Down the release
\* phase lasts while the envelope is at or above 0.001 and the flag is
\* false from the first sample below it.
C28_ReleasePhaseEndsWhenSweeping ==
    \A k \in 1..Len(frames) :
        frames[k].mode /= PitchNone =>
            /\ frames[k].env < 1 => ~frames[k].rel
            /\ frames[k].sweeping /\ frames[k].env >= 1 => frames[k].rel

C28_Witness ==
    /\ everTriggered
    /\ Len(frames) = NumFrames
    /\ frames[1].mode /= PitchNone
    /\ frames[1].sweeping /\ frames[1].env >= 1 /\ frames[1].rel
    /\ frames[2].sweeping /\ frames[2].env < 1 /\ ~frames[2].rel
    /\ ~inReleasePhase

----------------------------------------------------------------------------
(* SpecSweep: release sweeps at full length.  The parameters are any of     *)
(* SweepPresets, stored by the setters before the first buffer; then        *)
(* trigger(), release() and process() on buffers of SweepBufferSize frames, *)
(* with a release time long enough for the smoothed frequency to follow the *)
(* sweep.                                                                   *)

SweepBufferSize == 16   \* frames per process() call (the engine's bufferSize)
MaxSweepBuffers == 5    \* process() calls SpecSweep follows

\* The LFO's pitch modulation left off as constructed, or turned full on
\* with a square wave: setLfoPitchDepth(1), setLfoDepth(1), setLfoWaveform.
SweepPresets ==
    { [InitPar EXCEPT !.baseFrequency = setFrequency(f),
                      !.pitchEnvMode = m,
                      !.lfoPitchDepth = IF on THEN setLfoPitchDepth(3000) ELSE @,
                      !.lfoDepth = IF on THEN lfoSetDepth(3000) ELSE @,
                      !.lfoWaveform = IF on THEN 1 ELSE @,
                      !.releaseTime = setRelease(100)] :
        f \in {0, 440000, 30000000}, m \in PitchEnvelopeModes, on \in BOOLEAN }

SweepProcess ==
    /\ nBuffers < MaxSweepBuffers
    /\ ProcessBuffer(SweepBufferSize)

InitSweep ==
    /\ par \in SweepPresets
    /\ nCalls = 0
    /\ InitOutputIdle
    /\ InitEngineIdle

NextSweep ==
    \/ SirenTrigger
    \/ SirenRelease
    \/ SweepProcess

SpecSweep == InitSweep /\ [][NextSweep]_vars

\* The range a release sweep may cover from base frequency f: f to 4 f in
\* mode Up, f / 4 to f in mode Down.
InSweepRange(x, f, mode) ==
    IF mode = PitchUp THEN f <= x /\ x <= 4 * f
                      ELSE f <= 4 * x /\ x <= f

\* The bound a release sweep from base frequency f keeps: at most 4 f in
\* mode Up, at least f / 4 in mode Down.
TwoOctaveBound(x, f, mode) ==
    IF mode = PitchUp THEN x <= 4 * f ELSE f <= 4 * x

\* C15 as stated: for any base frequency f, the frequency during a release
\* sweep stays within two octaves of f: a frame of a sweep that begins with
\* the frequency at most 4 f in mode Up, at least f / 4 in mode Down, ends
\* with the smoothed frequency and the oscillator's frequency so bounded.
C15_FrequencyWithinTwoOctaves ==
    \A k \in 1..Len(frames) :
        LET fr == frames[k]
        IN  (fr.sweeping /\ TwoOctaveBound(fr.prev, fr.base, fr.mode)) =>
              /\ TwoOctaveBound(fr.current, fr.base, fr.mode)
              /\ TwoOctaveBound(fr.osc, fr.base, fr.mode)

\* C15, amended: in every frame of a sweep the frequency the sweep asks for
\* is between f and 4 f in mode Up and between f / 4 and f in mode Down;
\* with the LFO's pitch modulation off, so are the smoothed frequency and
\* the oscillator's frequency of a frame that begins inside that range.
C15_SweepWithinTwoOctaves ==
    \A k \in 1..Len(frames) :
        LET fr == frames[k]
        IN  fr.sweeping =>
              /\ InSweepRange(fr.sweepTarget, fr.base, fr.mode)
              /\ (fr.depth <= 1 /\ InSweepRange(fr.prev, fr.base, fr.mode)) =>
                    /\ InSweepRange(fr.current, fr.base, fr.mode)
                    /\ InSweepRange(fr.osc, fr.base, fr.mode)

\* A frame late in an upward sweep from 440 Hz: the sweep asks for more than
\* 3.9 times the base frequency and the oscillator has followed it beyond
\* 3 times the base frequency.
C15_Witness ==
    \E k \in 1..Len(frames) :
        /\ frames[k].sweeping
        /\ frames[k].mode = PitchUp
        /\ frames[k].depth = 0
        /\ frames[k].base = 440000
        /\ frames[k].sweepTarget > 1716000
        /\ frames[k].osc > 1320000
        /\ frames[k].osc <= 1760000

----------------------------------------------------------------------------
(* SpecPanel: the GPIOController's trigger button, shift button and        *)
(* pitch-envelope switch with the secret modes and the banks.  Each poll    *)
(* thread's callback is one step, up to a lock it cannot pass; the main     *)
(* thread's checkMP3PlaybackStatus and the audio thread reaching the end    *)
(* of the file are the other steps.  The two-second windows are the         *)
(* counts of the recorded presses and toggles, from which entries expire.   *)

\* checkPitchEnvMP3Activation: toggleCount >= 5
MP3_TOGGLES == 5

\* checkSecretModeActivation: pressCount >= 3, >= 5, >= 10
PITCH_DELAY_PRESSES == 3
NJD_PRESSES == 5
UFO_PRESSES == 10

MaxRapidPresses == 11   \* cap of rapidShiftPresses

SwitchPositions == {"Off", "Up", "Down"}

PanelUnchanged ==
    UNCHANGED <<nCalls, outputVars, voiceVars, envValue, lfoPhase,
                delayWritePos, springWriteIndex, triggerMutex, apc, aloc, out,
                cpc, storedDuring, filesMutex>>

\* A step of one of the process's threads: none once a trap has ended it.
PanelStep == ~faulted /\ PanelUnchanged

\* The player presses the trigger button: the pin reads 0.
TriggerButtonDown ==
    /\ triggerPin = 1
    /\ triggerPin' = 0
    /\ UNCHANGED <<par, triggerPressed, secretMode, recentPitchEnvToggles,
                   lastPitchEnvPosition, shiftVars, switchVars, presetVars,
                   audioMode,
                   envActive, inReleasePhase, pitchEnvStartLevel, oscPhase,
                   audioFiles, currentFileIndex, playbackPosition, playing,
                   finished>>
    /\ PanelStep

\* The player lets the trigger button go: the pin reads 1.
TriggerButtonUp ==
    /\ triggerPin = 0
    /\ triggerPin' = 1
    /\ UNCHANGED <<par, triggerPressed, secretMode, recentPitchEnvToggles,
                   lastPitchEnvPosition, shiftVars, switchVars, presetVars,
                   audioMode,
                   envActive, inReleasePhase, pitchEnvStartLevel, oscPhase,
                   audioFiles, currentFileIndex, playbackPosition, playing,
                   finished>>
    /\ PanelStep

\* onTriggerRelease: in MP3 mode "release doesn't do anything"
ReleaseSkipped(mode) == mode = "MP3"

\* MomentarySwitch::pollLoop, debounced, state == 0 && !pressed:
\* pressed.store(true); pressCallback() -> GPIOController::onTriggerPress:
\* engine.startMP3Playback() in MP3 mode, else engine.trigger().
PollTriggerPress ==
    /\ triggerPin = 0
    /\ ~triggerPressed
    /\ triggerPressed' = TRUE
    /\ IF secretMode = "MP3"
         THEN /\ IF audioMode = MP3Playback
                   THEN /\ playbackPosition' = 0
                        /\ finished' = FALSE
                        /\ playing' = TRUE
                   ELSE UNCHANGED <<playbackPosition, finished, playing>>
              /\ UNCHANGED <<oscPhase, envActive, inReleasePhase>>
         ELSE /\ oscPhase' = 0
              /\ envActive' = TRUE
              /\ inReleasePhase' = FALSE
              /\ UNCHANGED <<playbackPosition, finished, playing>>
    /\ UNCHANGED <<par, triggerPin, secretMode, recentPitchEnvToggles,
                   lastPitchEnvPosition, shiftVars, switchVars, presetVars,
                   audioMode,
                   pitchEnvStartLevel, audioFiles, currentFileIndex>>
    /\ PanelStep

\* MomentarySwitch::pollLoop, state == 1 && pressed, the minimum press time
\* over: pressed.store(false); releaseCallback() ->
\* GPIOController::onTriggerRelease: nothing in MP3 mode, else
\* engine.release().
PollTriggerRelease ==
    /\ triggerPin = 1
    /\ triggerPressed
    /\ triggerPressed' = FALSE
    /\ IF ReleaseSkipped(secretMode)
         THEN UNCHANGED <<pitchEnvStartLevel, inReleasePhase, envActive>>
         ELSE /\ pitchEnvStartLevel' = envValue
              /\ inReleasePhase' = TRUE
              /\ envActive' = FALSE
    /\ UNCHANGED <<par, triggerPin, secretMode, recentPitchEnvToggles,
                   lastPitchEnvPosition, shiftVars, switchVars, presetVars,
                   audioMode,
                   oscPhase, audioFiles, currentFileIndex, playbackPosition,
                   playing, finished>>
    /\ PanelStep

\* checkSecretModeActivation: the mode the presses in the window ask for,
\* UFO before NJD before Pitch-Delay; "none" below three presses
ModeForPresses(pressCount) ==
    IF pressCount >= UFO_PRESSES THEN "UFO"
    ELSE IF pressCount >= NJD_PRESSES THEN "NJD"
    ELSE IF pressCount >= PITCH_DELAY_PRESSES THEN "PitchDelay"
    ELSE "none"

\* engine.setPitchEnvelopeMode for a switch position
ModeOfPosition(position) ==
    CASE position = "Up" -> PitchUp
      [] position = "Down" -> PitchDown
      [] OTHER -> PitchNone

\* start(), "Apply initial parameters", and exitSecretMode, "Apply
\* restored parameters": the same calls of the engine's setters, with the
\* LFO pitch depth 0.5 and the LFO waveform Triangle
ApplyParameters(e, p) ==
    [e EXCEPT !.volume = setVolume(p.volume),
              !.lfoDepth = lfoSetDepth(p.lfoDepth),
              !.lfoPitchDepth = setLfoPitchDepth(500),
              !.lfoFrequency = lfoSetFrequency(p.lfoRate),
              !.lfoWaveform = 3,
              !.baseFrequency = setFrequency(p.baseFreq),
              !.delayFeedback = setFeedback(p.delayFeedback),
              !.delayTime = setDelayTime(p.delayTime),
              !.wet = reverbClamp(p.reverbMix),
              !.dry = 1000 - reverbClamp(p.reverbMix),
              !.springDecay = reverbClamp(p.reverbSize),
              !.releaseTime = setRelease(p.release),
              !.oscWaveform = WaveformOfIndex(p.oscWaveform)]

\* The engine's parameters once GPIOController::start() has run, the
\* pitch switch at Off.
StartedEngine ==
    ApplyParameters([InitPar EXCEPT !.pitchEnvMode = ModeOfPosition("Off")],
                    StartupParameters)

\* exitSecretMode, "Restore default parameters (Auto Wail preset)"
RestoredParameters ==
    [ volume        |-> 600,
      lfoDepth      |-> 500,
      lfoRate       |-> 2000,
      baseFreq      |-> 440000,
      delayFeedback |-> 550,
      delayTime     |-> 375,
      reverbMix     |-> 400,
      reverbSize    |-> 700,
      release       |-> 500,
      oscWaveform   |-> 1 ]

\* applySecretModePreset: baseFreq, release, oscWaveform, delayTime,
\* delayFeedback, reverbSize, reverbMix of each preset
NJDPresets ==
    << <<440000, 500, 1, 375, 550, 700, 400>>,    \* Auto Wail
       <<587000, 800, 1, 375, 500, 650, 350>>,    \* Classic
       <<440000, 300, 1, 375, 550, 700, 400>>,    \* Alert
       <<880000, 500, 1, 250, 550, 400, 350>>,    \* Bright
       <<392000, 1000, 2, 333, 600, 500, 400>> >> \* Wobble

UFOPresets ==
    << <<1600000, 150, 1, 30, 400, 200, 150>>,    \* Laser Blast
       <<1200000, 2000, 0, 100, 700, 900, 500>>,  \* Flying Saucer
       <<1800000, 300, 1, 50, 800, 300, 600>>,    \* Alien Signal
       <<80000, 3000, 2, 750, 500, 950, 450>> >>  \* Warp Drive

\* The controller's state the secret-mode functions work on.
Controller ==
    [ mode |-> secretMode, preset |-> secretModePreset, params |-> params,
      engine |-> par, presses |-> recentShiftPresses,
      audioMode |-> audioMode, playing |-> playing ]

ControllerBecomes(c) ==
    /\ secretMode' = c.mode
    /\ secretModePreset' = c.preset
    /\ params' = c.params
    /\ par' = c.engine
    /\ recentShiftPresses' = c.presses
    /\ audioMode' = c.audioMode
    /\ playing' = c.playing

\* applySecretModePreset: the preset's values are written to params (in
\* NJD mode with the LFO's pitch settings sent to the engine), then
\* params is applied to the engine
applySecretModePreset(c) ==
    LET v == IF c.mode = "NJD" THEN NJDPresets[c.preset + 1]
                               ELSE UFOPresets[c.preset + 1]
        p == IF c.mode \in {"NJD", "UFO"}
               THEN [c.params EXCEPT !.baseFreq = v[1], !.release = v[2],
                                     !.oscWaveform = v[3], !.delayTime = v[4],
                                     !.delayFeedback = v[5],
                                     !.reverbSize = v[6], !.reverbMix = v[7]]
               ELSE c.params
        e1 == IF c.mode = "NJD"
                THEN IF c.preset = 0
                       THEN [c.engine EXCEPT
                               !.lfoFrequency = lfoSetFrequency(2000),
                               !.lfoPitchDepth = setLfoPitchDepth(500),
                               !.lfoWaveform = 3]
                       ELSE [c.engine EXCEPT
                               !.lfoPitchDepth = setLfoPitchDepth(0)]
                ELSE c.engine
        e2 == [e1 EXCEPT !.baseFrequency = setFrequency(p.baseFreq),
                         !.releaseTime = setRelease(p.release),
                         !.oscWaveform = WaveformOfIndex(p.oscWaveform),
                         !.delayTime = setDelayTime(p.delayTime),
                         !.delayFeedback = setFeedback(p.delayFeedback),
                         !.springDecay = reverbClamp(p.reverbSize),
                         !.wet = reverbClamp(p.reverbMix),
                         !.dry = 1000 - reverbClamp(p.reverbMix)]
    IN  [c EXCEPT !.params = p, !.engine = e2]

\* cycleSecretModePreset: 5 NJD presets, 4 UFO presets
cycleSecretModePreset(c) ==
    LET numPresets == IF c.mode = "NJD" THEN 5 ELSE 4
    IN  applySecretModePreset(
            [c EXCEPT !.preset = (c.preset + 1) % numPresets])

\* An exitSecretMode that returns at once in every mode.
exitSecretModeReturns(c) == c

\* exitSecretMode: nothing in no mode; engine.disableMP3Mode() out of MP3;
\* the mode and the preset are reset; out of NJD and UFO the default
\* parameters are restored and applied to the engine
exitSecretMode(c) ==
    IF c.mode = "None" THEN c
    ELSE [c EXCEPT
            !.mode = "None",
            !.preset = 0,
            !.audioMode = IF c.mode = "MP3" THEN Synthesis ELSE @,
            !.playing = IF c.mode = "MP3" THEN FALSE ELSE @,
            !.params = IF c.mode \in {"NJD", "UFO"}
                         THEN RestoredParameters ELSE @,
            !.engine = IF c.mode \in {"NJD", "UFO"}
                         THEN ApplyParameters(@, RestoredParameters) ELSE @]

\* activateSecretMode(mode) up to "Enter the new mode": "If activating
\* same mode we're already in, toggle it off" and return; else another
\* mode is left first and the mode and preset 0 are stored
enterSecretMode(c, mode) ==
    IF c.mode = mode THEN exitSecretMode(c)
    ELSE [exitSecretMode(c) EXCEPT !.mode = mode, !.preset = 0]

\* activateSecretMode(mode) for a mode of the shift button: having entered
\* the mode, the recorded presses are cleared and, in NJD and UFO, the
\* preset applied
activateSecretMode(c, mode) ==
    IF c.mode = mode THEN exitSecretMode(c)
    ELSE LET entered == [enterSecretMode(c, mode) EXCEPT !.presses = 0]
         IN  IF mode \in {"NJD", "UFO"} THEN applySecretModePreset(entered)
                                        ELSE entered

\* The presses of a burst: counted from a press made in normal operation
\* with no press in the window, until a press leaves the window.
BurstAfterPress ==
    IF rapidShiftPresses = 0 /\ ~(secretMode = "None" /\ recentShiftPresses = 0)
      THEN 0
      ELSE Min2(rapidShiftPresses + 1, MaxRapidPresses)

\* MomentarySwitch::pollLoop of the shift button -> onShiftPress:
\* shiftPressed.store(true); the press is recorded;
\* checkSecretModeActivation() counts the presses of the last two seconds
\* and calls activateSecretMode (which leaves another mode through
\* exitSecretMode first: engine.disableMP3Mode() for MP3); then, by the
\* mode now stored: Bank B in None and PitchDelay, the next preset in NJD
\* and UFO, the next file in MP3 - (currentIndex + 1) % fileCount, a
\* division by zero when no file is loaded: a trap, or any index, which
\* selectFile then rejects.
ShiftPress ==
    /\ ~shiftPressed
    /\ LET pressCount == recentShiftPresses + 1
           mode == ModeForPresses(pressCount)
           recorded == [Controller EXCEPT !.presses = pressCount]
           checked == IF mode = "none" THEN recorded
                      ELSE activateSecretMode(recorded, mode)
           done == IF checked.mode \in {"NJD", "UFO"}
                     THEN cycleSecretModePreset(checked) ELSE checked
       IN  /\ shiftPressed' = TRUE
           /\ ControllerBecomes(done)
           /\ rapidShiftPresses' = BurstAfterPress
           /\ currentBank' = IF checked.mode \in {"None", "PitchDelay"}
                               THEN "B" ELSE currentBank
           /\ IF checked.mode = "MP3"
                THEN IF Len(audioFiles) = 0
                       THEN /\ faulted' \in BOOLEAN
                            /\ UNCHANGED <<currentFileIndex,
                                           playbackPosition, finished>>
                       ELSE /\ currentFileIndex' =
                                  (currentFileIndex + 1) % Len(audioFiles)
                            /\ playbackPosition' = 0
                            /\ finished' = FALSE
                            /\ UNCHANGED faulted
                ELSE UNCHANGED <<currentFileIndex, playbackPosition,
                                 finished, faulted>>
    /\ UNCHANGED <<triggerPin, triggerPressed, recentPitchEnvToggles,
                   lastPitchEnvPosition, switchPc, pitchEnvMutex,
                   nEncoderSteps, envActive, inReleasePhase,
                   pitchEnvStartLevel, oscPhase, audioFiles>>
    /\ PanelStep

\* onShiftRelease: "Normal operation or PitchDelay mode - switch back to
\* Bank A"; in the other modes the bank is left alone
ReleaseRestoresBank(mode) == mode \in {"None", "PitchDelay"}

\* MomentarySwitch::pollLoop of the shift button -> onShiftRelease
ShiftRelease ==
    /\ shiftPressed
    /\ shiftPressed' = FALSE
    /\ currentBank' = IF ReleaseRestoresBank(secretMode) THEN "A"
                                                       ELSE currentBank
    /\ UNCHANGED <<par, triggerPin, triggerPressed, secretMode,
                   recentPitchEnvToggles, lastPitchEnvPosition,
                   recentShiftPresses, rapidShiftPresses, switchVars,
                   presetVars, audioMode, envActive, inReleasePhase, pitchEnvStartLevel,
                   oscPhase, audioFiles, currentFileIndex, playbackPosition,
                   playing, finished>>
    /\ PanelStep

\* checkSecretModeActivation: a press older than two seconds is dropped;
\* the burst of rapid presses is over
ShiftPressExpires ==
    /\ recentShiftPresses > 0
    /\ recentShiftPresses' = recentShiftPresses - 1
    /\ rapidShiftPresses' = 0
    /\ UNCHANGED <<par, triggerPin, triggerPressed, secretMode,
                   recentPitchEnvToggles, lastPitchEnvPosition, shiftPressed,
                   currentBank, switchVars, presetVars, audioMode, envActive,
                   inReleasePhase, pitchEnvStartLevel, oscPhase, audioFiles,
                   currentFileIndex, playbackPosition, playing, finished>>
    /\ PanelStep

\* An always-late variant of the activation test.
PitchEnvActivatesLate(toggleCount, mode) ==
    toggleCount > MP3_TOGGLES /\ mode /= "MP3"

\* checkPitchEnvMP3Activation: toggleCount >= 5 && secretMode != MP3
PitchEnvActivates(toggleCount, mode) ==
    toggleCount >= MP3_TOGGLES /\ mode /= "MP3"

\* ThreePositionSwitch::pollLoop sees a new position ->
\* GPIOController::onPitchEnvChange: under lock_guard(pitchEnvMutex) a move
\* out of Off is recorded as a toggle and checkPitchEnvMP3Activation() is
\* called; without an activation the position is stored, the lock released
\* and setPitchEnvelopeMode called.  With one, activateSecretMode(MP3) runs
\* inside the lock: it leaves another mode, stores the mode and comes to
\* its own lock_guard(pitchEnvMutex).
PitchSwitchMoves ==
    /\ switchPc = "poll"
    /\ \E position \in SwitchPositions \ {lastPitchEnvPosition} :
        LET toggled == lastPitchEnvPosition = "Off"
            count == IF toggled THEN recentPitchEnvToggles + 1
                                ELSE recentPitchEnvToggles
            activate == toggled /\ PitchEnvActivates(count, secretMode)
        IN  /\ recentPitchEnvToggles' = Min2(count, MP3_TOGGLES)
            /\ IF activate
                 THEN /\ ControllerBecomes(enterSecretMode(Controller, "MP3"))
                      /\ switchPc' = "relock"
                      /\ pitchEnvMutex' = "switch"
                      /\ UNCHANGED lastPitchEnvPosition
                 ELSE /\ lastPitchEnvPosition' = position
                      /\ par' = [par EXCEPT
                                   !.pitchEnvMode = ModeOfPosition(position)]
                      /\ UNCHANGED <<secretMode, switchPc, pitchEnvMutex,
                                     params, secretModePreset,
                                     recentShiftPresses, audioMode, playing>>
    /\ UNCHANGED <<triggerPin, triggerPressed, shiftPressed, currentBank,
                   rapidShiftPresses, faulted, nEncoderSteps, envActive,
                   inReleasePhase, pitchEnvStartLevel, oscPhase, audioFiles,
                   currentFileIndex, playbackPosition, finished>>
    /\ PanelStep

\* activateSecretMode(MP3), lock_guard(pitchEnvMutex) on a std::mutex the
\* calling thread owns: undefined.  One outcome: the thread waits for
\* itself for ever, inside the callback.
RelockHangs ==
    /\ switchPc = "relock"
    /\ switchPc' = "hung"
    /\ UNCHANGED <<par, triggerPin, triggerPressed, secretMode,
                   recentPitchEnvToggles, lastPitchEnvPosition, shiftVars,
                   pitchEnvMutex, faulted, presetVars, audioMode, envActive,
                   inReleasePhase, pitchEnvStartLevel, oscPhase, audioFiles,
                   currentFileIndex, playbackPosition, playing, finished>>
    /\ PanelStep

\* The other outcome: the lock is passed.  activateSecretMode goes on: the
\* toggles are cleared and engine.enableMP3Mode tries the directories;
\* back in onPitchEnvChange the position (one of the two ON positions) is
\* stored, the lock released and setPitchEnvelopeMode called.
RelockProceeds ==
    /\ switchPc = "relock"
    /\ switchPc' = "poll"
    /\ pitchEnvMutex' = "free"
    /\ recentPitchEnvToggles' = 0
    /\ \E position \in SwitchPositions \ {"Off"} :
          /\ lastPitchEnvPosition' = position
          /\ par' = [par EXCEPT !.pitchEnvMode = ModeOfPosition(position)]
    /\ \E dir \in Directories :
          /\ audioFiles' = dir
          /\ IF dir = <<>>
               THEN UNCHANGED <<audioMode, currentFileIndex,
                                playbackPosition, finished>>
               ELSE /\ audioMode' = MP3Playback
                    /\ currentFileIndex' = 0
                    /\ playbackPosition' = 0
                    /\ finished' = FALSE
    /\ UNCHANGED <<triggerPin, triggerPressed, secretMode, shiftVars, faulted,
                   presetVars, envActive, inReleasePhase, pitchEnvStartLevel,
                   oscPhase, playing>>
    /\ PanelStep

\* checkPitchEnvMP3Activation: a toggle older than two seconds is dropped
ToggleExpires ==
    /\ recentPitchEnvToggles > 0
    /\ switchPc = "poll"
    /\ recentPitchEnvToggles' = recentPitchEnvToggles - 1
    /\ UNCHANGED <<par, triggerPin, triggerPressed, secretMode,
                   lastPitchEnvPosition, shiftVars, switchVars, presetVars,
                   audioMode,
                   envActive, inReleasePhase, pitchEnvStartLevel, oscPhase,
                   audioFiles, currentFileIndex, playbackPosition, playing,
                   finished>>
    /\ PanelStep

\* AudioFilePlayer::fillBuffer reaches the end of the file
FileEnds ==
    /\ audioMode = MP3Playback
    /\ playing
    /\ playing' = FALSE
    /\ finished' = TRUE
    /\ UNCHANGED <<par, panelVars, audioMode, envActive, inReleasePhase,
                   pitchEnvStartLevel, oscPhase, audioFiles, currentFileIndex,
                   playbackPosition>>
    /\ PanelStep

\* A status check that never finds the file finished.
NeverExits(mode, fileFinished) == FALSE

\* checkMP3PlaybackStatus: currentMode == MP3 and engine.hasMP3Finished()
ExitsWhenFinished(mode, fileFinished) == mode = "MP3" /\ fileFinished

\* main(): gpioController->checkMP3PlaybackStatus(): in MP3 mode with the
\* file finished, exitSecretMode(): engine.disableMP3Mode() and
\* secretMode.store(None)
CheckMP3PlaybackStatus ==
    /\ ExitsWhenFinished(secretMode, finished)
    /\ ControllerBecomes(exitSecretMode(Controller))
    /\ UNCHANGED <<triggerPin, triggerPressed, recentPitchEnvToggles,
                   lastPitchEnvPosition, shiftPressed, currentBank,
                   rapidShiftPresses, switchVars, nEncoderSteps, envActive,
                   inReleasePhase, pitchEnvStartLevel, oscPhase, audioFiles,
                   currentFileIndex, playbackPosition, finished>>
    /\ PanelStep

InitPanel ==
    /\ par = InitPar
    /\ nCalls = 0
    /\ InitOutputIdle
    /\ InitEngineIdle

NextPanel ==
    \/ TriggerButtonDown
    \/ TriggerButtonUp
    \/ PollTriggerPress
    \/ PollTriggerRelease
    \/ ShiftPress
    \/ ShiftRelease
    \/ ShiftPressExpires
    \/ PitchSwitchMoves
    \/ RelockHangs
    \/ RelockProceeds
    \/ ToggleExpires
    \/ FileEnds
    \/ CheckMP3PlaybackStatus

SpecPanel == InitPanel /\ [][NextPanel]_vars

\* The main loop's status check every 100 ms and the audio thread's
\* buffers are scheduled; what the player does is not.
SpecPanelFair ==
    /\ SpecPanel
    /\ WF_vars(CheckMP3PlaybackStatus)
    /\ WF_vars(FileEnds)

\* C20: press to start, release to stop: once the trigger button's release
\* has been handled the voice is not active, whatever mode changes happened
\* while the button was held: every press that called engine.trigger() has
\* been followed by engine.release().
C20_ReleasedButtonReleasesVoice ==
    ~triggerPressed => ~envActive

----------------------------------------------------------------------------
(* SpecPreset: the controller's parameters through the secret modes of the *)
(* shift button: the encoders, the presets and the exit.  It starts when   *)
(* start() has run.  NJD and UFO are entered by activateSecretMode, as the *)
(* header has it for five and ten rapid presses.                           *)

MaxEncoderSteps == 2

\* The encoders of the parameters Parameters has.
EncoderIndices == {0, 1, 3, 4}

\* handleEncoder(encoderIndex, direction): the parameter of the current
\* bank is stepped, clamped and sent to the engine; the base frequency
\* drags the engine's delay time along in Pitch-Delay mode
handleEncoder(c, bank, encoderIndex, direction) ==
    LET p == c.params
        e == c.engine
    IN  IF bank = "A"
          THEN CASE encoderIndex = 0 ->
                     LET v == clamp(p.lfoDepth + 42 * direction, 0, 1000)
                     IN  [c EXCEPT !.params.lfoDepth = v,
                                   !.engine.lfoDepth = lfoSetDepth(v)]
                 [] encoderIndex = 1 ->
                     LET m == IF direction > 0 THEN 1165 ELSE 858
                         v == clamp(MulThousandths(p.baseFreq, m),
                                    50000, 2000000)
                         scaled == clamp(RoundDiv(p.delayTime * 440000, v),
                                         10, 2000)
                     IN  [c EXCEPT
                            !.params.baseFreq = v,
                            !.engine.baseFrequency = setFrequency(v),
                            !.engine.delayTime =
                                IF c.mode = "PitchDelay"
                                  THEN setDelayTime(scaled) ELSE @]
                 [] encoderIndex = 3 ->
                     LET v == clamp(p.delayFeedback + 40 * direction, 0, 950)
                     IN  [c EXCEPT !.params.delayFeedback = v,
                                   !.engine.delayFeedback = setFeedback(v)]
                 [] OTHER ->
                     LET v == clamp(p.reverbMix + 42 * direction, 0, 1000)
                     IN  [c EXCEPT !.params.reverbMix = v,
                                   !.engine.wet = reverbClamp(v),
                                   !.engine.dry = 1000 - reverbClamp(v)]
          ELSE CASE encoderIndex = 0 ->
                     LET m == IF direction > 0 THEN 1150 ELSE 870
                         v == clamp(MulThousandths(p.lfoRate, m), 100, 20000)
                     IN  [c EXCEPT !.params.lfoRate = v,
                                   !.engine.lfoFrequency = lfoSetFrequency(v)]
                 [] encoderIndex = 1 ->
                     LET v == clamp(p.delayTime + 83 * direction, 1, 2000)
                     IN  [c EXCEPT !.params.delayTime = v,
                                   !.engine.delayTime = setDelayTime(v)]
                 [] encoderIndex = 3 ->
                     LET v == (p.oscWaveform + direction + 4) % 4
                     IN  [c EXCEPT !.params.oscWaveform = v,
                                   !.engine.oscWaveform = WaveformOfIndex(v)]
                 [] OTHER ->
                     LET v == clamp(p.reverbSize + 42 * direction, 0, 1000)
                     IN  [c EXCEPT !.params.reverbSize = v,
                                   !.engine.springDecay = reverbClamp(v)]

\* RotaryEncoder's callback -> handleEncoder
HandleEncoder ==
    /\ nEncoderSteps < MaxEncoderSteps
    /\ nEncoderSteps' = nEncoderSteps + 1
    /\ \E encoderIndex \in EncoderIndices, direction \in {-1, 1} :
          ControllerBecomes(handleEncoder(Controller, currentBank,
                                          encoderIndex, direction))
    /\ UNCHANGED <<triggerPin, triggerPressed, recentPitchEnvToggles,
                   lastPitchEnvPosition, shiftPressed, currentBank,
                   rapidShiftPresses, switchVars, envActive, inReleasePhase,
                   pitchEnvStartLevel, oscPhase, audioFiles, currentFileIndex,
                   playbackPosition, finished>>
    /\ PanelStep

\* activateSecretMode(NJD), activateSecretMode(UFO)
EnterSecretMode ==
    /\ \E mode \in {"NJD", "UFO"} :
          ControllerBecomes(activateSecretMode(Controller, mode))
    /\ UNCHANGED <<triggerPin, triggerPressed, recentPitchEnvToggles,
                   lastPitchEnvPosition, shiftPressed, currentBank,
                   rapidShiftPresses, switchVars, nEncoderSteps, envActive,
                   inReleasePhase, pitchEnvStartLevel, oscPhase, audioFiles,
                   currentFileIndex, playbackPosition, finished>>
    /\ PanelStep

InitPreset ==
    /\ par = StartedEngine
    /\ nCalls = 0
    /\ InitOutputIdle
    /\ InitEngineIdle

NextPreset ==
    \/ HandleEncoder
    \/ EnterSecretMode
    \/ ShiftPress
    \/ ShiftRelease
    \/ ShiftPressExpires

SpecPreset == InitPreset /\ [][NextPreset]_vars

\* A step that leaves NJD or UFO mode for no mode or Pitch-Delay.
LeavesPresetMode ==
    secretMode \in {"NJD", "UFO"} /\ secretMode' \notin {"NJD", "UFO"}

\* Leaving NJD or UFO restores every parameter but the LFO rate to its
\* value at startup, in the controller and in the engine.
ExitRestoresAllButLfoRate ==
    [][LeavesPresetMode
          => ([params' EXCEPT !.lfoRate = 350] = StartupParameters
              /\ [par' EXCEPT !.lfoFrequency = 350] = StartedEngine)]_vars

PressCountBelowFive ==
    recentShiftPresses < NJD_PRESSES /\ secretMode \notin {"NJD", "UFO"}

\* C21: five rapid shift presses - a burst begun in normal operation, all
\* five inside the window - put the controller into NJD mode.
C21_FivePressesEnterNJD ==
    rapidShiftPresses = NJD_PRESSES => secretMode = "NJD"

\* C22: ten rapid shift presses put the controller into UFO mode, which
\* takes priority over the modes of three and five presses.
C22_TenPressesEnterUFO ==
    rapidShiftPresses = UFO_PRESSES => secretMode = "UFO"

\* The handler of a move out of Off has recorded the toggle.
TogglePushed ==
    /\ switchPc = "poll"
    /\ lastPitchEnvPosition = "Off"
    /\ lastPitchEnvPosition' /= "Off" \/ switchPc' = "relock"

UserInput ==
    \/ TriggerButtonDown \/ TriggerButtonUp
    \/ PollTriggerPress \/ PollTriggerRelease
    \/ ShiftPress \/ ShiftRelease
    \/ PitchSwitchMoves \/ RelockHangs \/ RelockProceeds

\* A file has played to its end and the controller, running, is in MP3
\* mode.
PlayedToEnd == ~faulted /\ secretMode = "MP3" /\ finished

\* C24: MP3 mode is one-shot: once the file has played to its end in MP3
\* mode, that state does not last, and unless the player does something
\* it is left for secret mode None with the engine in synthesis.
C24_OneShotMP3 ==
    /\ PlayedToEnd ~> ~PlayedToEnd
    /\ [][PlayedToEnd /\ ~PlayedToEnd'
            => \/ secretMode' = "None" /\ audioMode' = Synthesis
               \/ UserInput]_vars

C24_Witness ==
    /\ secretMode = "None"
    /\ audioMode = Synthesis
    /\ finished
    /\ Len(audioFiles) > 0

\* C25: Bank B only while SHIFT is held: with the shift button released
\* and the controller in normal operation (no secret mode, or Pitch-Delay)
\* the current bank is A.
C25_BankBOnlyWhileShiftHeld ==
    ~shiftPressed /\ secretMode \in {"None", "PitchDelay"}
        => currentBank = "A"

\* C27: activateSecretMode is never called by a thread that holds the
\* mutex it acquires: no thread waits for a mutex it owns, and every
\* callback returns.
C27_ActivationOutsideLocks ==
    /\ ~(switchPc = "relock" /\ pitchEnvMutex = "switch")
    /\ switchPc /= "hung"

\* C31: whenever the controller's secret mode is MP3 (and no activation is
\* in progress in the switch's thread), the engine is in file-playback mode
\* with at least one file loaded: a failed load never leaves the controller
\* in MP3 mode.
C31_MP3ModeHasFiles ==
    secretMode = "MP3" /\ switchPc = "poll"
        => audioMode = MP3Playback /\ Len(audioFiles) > 0

\* A shift press that completes the gesture of the secret mode the
\* controller is in: checkSecretModeActivation calls activateSecretMode
\* with the current mode.
ShiftGestureRepeated ==
    /\ ~shiftPressed /\ shiftPressed'
    /\ secretMode /= "None"
    /\ ModeForPresses(recentShiftPresses + 1) = secretMode

\* The fifth Off->On move of the pitch switch inside the window, made in
\* MP3 mode.
SwitchGestureRepeated ==
    /\ TogglePushed
    /\ recentPitchEnvToggles + 1 >= MP3_TOGGLES
    /\ secretMode = "MP3"

C35_ShiftCyclesFiles ==
    [][ (~shiftPressed /\ shiftPressed' /\ secretMode = "MP3"
           /\ secretMode' = "MP3")
          => /\ Len(audioFiles) > 0
             /\ ~faulted'
             /\ currentFileIndex' = (currentFileIndex + 1) % Len(audioFiles)
             /\ currentFileIndex' < Len(audioFiles) ]_vars

----------------------------------------------------------------------------
(* MomentarySwitch (GPIOController.cpp), pass by pass.  One step of the    *)
(* poll thread is one pass of pollLoop's loop; the pin's reading and the    *)
(* time gone by since the previous pass are arbitrary.                      *)

MaxCallbacks == 4       \* callbacks SpecSwitch follows

\* Milliseconds from one pass's `now` to the next: the 2 ms sleep, or
\* longer when a callback or the scheduler held the thread up.
PassTimes == {2, 10, 30}

PinReadings == {0, 1}

SwitchUnchanged ==
    UNCHANGED <<paramVars, outputVars, engineVars, playerVars, voiceRest,
                releaseProgress, freshPlay, envelope, delay, hostVars,
                panelVars>>

\* pollLoop: state == 0 && !pressed.load(); with the check left out
PressDetectedWhileLow(state, pressed) == state = 0

PressDetected(state, pressed) == state = 0 /\ ~pressed

\* pollLoop: state == 1 && pressed.load()
ReleaseDetected(state, pressed) == state = 1 /\ pressed

\* One pass of pollLoop's loop on a switch m that reads `state`, dt ms after
\* the previous pass: the debounce (a changed reading restarts lastChange,
\* and nothing more happens until the reading has been the same for
\* DEBOUNCE_MS), then a press, or a release once the press is MIN_PRESS_MS
\* old, each with its callback if there is one.
pollLoop(m, state, dt) ==
    LET elapsed == IF state /= m.lastState
                     THEN 0
                     ELSE Min2(m.sinceChange + dt, DEBOUNCE_MS)
        pressDuration == Min2(m.sincePress + dt, MIN_PRESS_MS)
        debounced == [m EXCEPT !.lastState = state,
                               !.sinceChange = elapsed,
                               !.sincePress = pressDuration]
    IN  IF elapsed < DEBOUNCE_MS
          THEN debounced
          ELSE IF PressDetected(state, m.pressed)
                 THEN [debounced EXCEPT !.pressed = TRUE,
                                        !.sincePress = 0,
                                        !.callbacks = Append(@, "press")]
                 ELSE IF ReleaseDetected(state, m.pressed)
                            /\ pressDuration >= MIN_PRESS_MS
                        THEN [debounced EXCEPT
                                 !.pressed = FALSE,
                                 !.callbacks = IF m.hasRelease
                                                 THEN Append(@, "release")
                                                 ELSE @]
                        ELSE debounced

\* MomentarySwitch::start: nothing if running; with HAVE_PIGPIO lastState
\* becomes the pin's reading, without it lastState stays; the thread starts.
SwitchStart ==
    /\ ~momentary.running
    /\ \E state \in PinReadings \cup {momentary.lastState} :
          momentary' = [momentary EXCEPT !.running = TRUE,
                                         !.lastState = state]
    /\ SwitchUnchanged

\* MomentarySwitch::stop: running.store(false) and the join; the thread
\* ends between two passes.
SwitchStop ==
    /\ momentary.running
    /\ momentary' = [momentary EXCEPT !.running = FALSE]
    /\ SwitchUnchanged

PollPass ==
    /\ momentary.running
    /\ Len(momentary.callbacks) < MaxCallbacks
    /\ \E state \in PinReadings, dt \in PassTimes :
          momentary' = pollLoop(momentary, state, dt)
    /\ SwitchUnchanged

\* The four buttons of the controller: trigger and shift have both
\* callbacks, shutdown and waveform have no release callback.
InitSwitch ==
    /\ par = InitPar
    /\ nCalls = 0
    /\ InitOutputIdle
    /\ InitEngineRest
    /\ momentary \in {MomentarySwitchNew(onRelease) : onRelease \in BOOLEAN}
    /\ envelope = EnvelopeNew(DEFAULT_SAMPLE_RATE)
    /\ delay = DelayEffectNew
    /\ InitHost

NextSwitch ==
    \/ SwitchStart
    \/ SwitchStop
    \/ PollPass

SpecSwitch == InitSwitch /\ [][NextSwitch]_vars

\* The callbacks delivered so far are press, release, press, ...
Alternating(log) ==
    \A k \in 1..Len(log) :
        log[k] = (IF k % 2 = 1 THEN "press" ELSE "release")

\* C36: for each momentary switch, press and release callbacks strictly
\* alternate, starting with a press, for every sequence of pin readings.
C36_CallbacksAlternate ==
    Alternating(momentary.callbacks)

\* C36, for the switch as constructed: the press and release the loop
\* detects alternate, starting with a press (pressed is true exactly after
\* a press), a release callback always follows a press callback, and the
\* callbacks of a switch that has both alternate strictly.
C36_DetectionsAlternate ==
    /\ momentary.hasRelease => Alternating(momentary.callbacks)
    /\ ~momentary.hasRelease
          => \A k \in 1..Len(momentary.callbacks) :
                 momentary.callbacks[k] = "press"
    /\ momentary.pressed
          => /\ Len(momentary.callbacks) > 0
             /\ momentary.callbacks[Len(momentary.callbacks)] = "press"
    /\ (momentary.hasRelease /\ ~momentary.pressed)
          => (Len(momentary.callbacks) = 0
                \/ momentary.callbacks[Len(momentary.callbacks)] = "release")

\* A switch with both callbacks was pressed, released and pressed again.
C36_Witness ==
    /\ momentary.hasRelease
    /\ momentary.callbacks = <<"press", "release", "press">>

----------------------------------------------------------------------------
(* Envelope on its own (Envelope.cpp): trigger(), release(), setAttack(),  *)
(* setRelease() and generateSample() in any order, at a sample rate the     *)
(* constructor was given.  The value is in thousandths, the coefficients    *)
(* are in millionths.                                                       *)

\* The sampleRate of the Envelope: main() passes on what --sample-rate
\* gave (std::atoi, any number); the default is 48000.
EnvelopeRates == {4000, DEFAULT_SAMPLE_RATE}

\* Times given to setAttack and setRelease, in thousandths of a second:
\* below both ranges, the shortest attack, inside both, above both.
TimeInputs == {0, 1, 500, 9000}

EnvelopeUnchanged ==
    UNCHANGED <<paramVars, outputVars, engineVars, playerVars, voiceRest,
                releaseProgress, freshPlay, momentary, delay, hostVars,
                panelVars>>

\* a / b rounded to the nearest integer, for a product too wide to double
RoundDivWide(a, b) == (a \div b) + (IF 2 * (a % b) >= b THEN 1 ELSE 0)

\* currentValue += (target - currentValue) * coeff, with the sign of the
\* step reversed
StepAway(value, target, coeff) ==
    value - RoundDivWide((target - value) * coeff, 1000000)

\* currentValue += (target - currentValue) * coeff.  A float step that is
\* not zero moves the value: where it is under half a thousandth the value
\* moves by one thousandth.
StepToward(value, target, coeff) ==
    LET d == RoundDivWide((target - value) * coeff, 1000000)
    IN  IF d = 0 /\ target /= value /\ coeff > 0
          THEN (IF target > value THEN value + 1 ELSE value - 1)
          ELSE value + d

\* Envelope::generateSample: target 1.0 and attackCoeff while active, else
\* target 0.0 and releaseCoeff
generateSample(e) ==
    [e EXCEPT !.currentValue =
        IF e.active
          THEN StepToward(@, 1000, e.attackCoeff)
          ELSE StepToward(@, 0, e.releaseCoeff)]

\* The envelope with its two times set and updateCoefficients() run, which
\* computes both coefficients anew
WithTimes(e, attackMs, releaseMs) ==
    [e EXCEPT !.attackTime = attackMs,
              !.releaseTime = releaseMs,
              !.attackCoeff = updateCoefficients(attackMs, e.sampleRate),
              !.releaseCoeff = updateCoefficients(releaseMs, e.sampleRate)]

\* Envelope::trigger: active.store(true)
EnvelopeTrigger ==
    /\ ~envelope.active
    /\ envelope' = [envelope EXCEPT !.active = TRUE]
    /\ EnvelopeUnchanged

\* Envelope::release: active.store(false)
EnvelopeRelease ==
    /\ envelope.active
    /\ envelope' = [envelope EXCEPT !.active = FALSE]
    /\ EnvelopeUnchanged

\* Envelope::setAttack: attackTime = std::clamp(timeSeconds, 0.001f, 2.0f),
\* updateCoefficients()
EnvelopeSetAttack ==
    /\ \E timeMs \in TimeInputs :
          envelope' = WithTimes(envelope, setAttack(timeMs),
                                envelope.releaseTime)
    /\ EnvelopeUnchanged

\* Envelope::setRelease: releaseTime = std::clamp(timeSeconds, 0.01f, 5.0f),
\* updateCoefficients()
EnvelopeSetRelease ==
    /\ \E timeMs \in TimeInputs :
          envelope' = WithTimes(envelope, envelope.attackTime,
                                setRelease(timeMs))
    /\ EnvelopeUnchanged

\* One sample tick
EnvelopeGenerateSample ==
    /\ envelope' = generateSample(envelope)
    /\ EnvelopeUnchanged

InitEnvelope ==
    /\ par = InitPar
    /\ nCalls = 0
    /\ InitOutputIdle
    /\ InitEngineRest
    /\ momentary = MomentarySwitchNew(TRUE)
    /\ envelope \in {EnvelopeNew(rate) : rate \in EnvelopeRates}
    /\ delay = DelayEffectNew
    /\ InitHost

NextEnvelope ==
    \/ EnvelopeTrigger
    \/ EnvelopeRelease
    \/ EnvelopeSetAttack
    \/ EnvelopeSetRelease
    \/ EnvelopeGenerateSample

SpecEnvelope == InitEnvelope /\ [][NextEnvelope]_vars

\* The value e2 a tick made of the value of e is between that value and
\* the target: it has not moved away and not gone past.
TowardTarget(e, e2) ==
    IF e.active
      THEN e.currentValue <= e2.currentValue /\ e2.currentValue <= 1000
      ELSE 0 <= e2.currentValue /\ e2.currentValue <= e.currentValue

\* The envelope stays in [0, 1] and a step that changes its value (only a
\* tick does) moves it toward the target without passing it.
StaysAndApproaches ==
    /\ envelope'.currentValue \in 0..1000
    /\ envelope'.currentValue /= envelope.currentValue
          => TowardTarget(envelope, envelope')

\* C37: for every sequence of trigger(), release(), setAttack(),
\* setRelease() calls and sample ticks, the envelope value stays within
\* [0, 1] and each tick moves it toward the current target (1.0 while
\* active, 0.0 otherwise) without overshooting or oscillating around it.
C37_EnvelopeApproachesTarget ==
    [][StaysAndApproaches]_vars

\* No coefficient the setters can produce exceeds 1: the largest is that of
\* the shortest attack, DECAY_SCALE / (0.001 * sampleRate).
CoefficientsAtMostOne(e) ==
    updateCoefficients(1, e.sampleRate) <= 1000000

\* C37, at the sample rates from 4605 Hz up (the default 48 kHz among them):
\* there every coefficient is at most 1, the value stays within [0, 1] and
\* each tick moves it toward the current target without passing it.
C37_ApproachesAtAudioRates ==
    [][CoefficientsAtMostOne(envelope) => StaysAndApproaches]_vars

\* At 48 kHz the envelope rose with the shortest attack, was released and
\* is on its way down.
C37_Witness ==
    /\ envelope.sampleRate = DEFAULT_SAMPLE_RATE
    /\ envelope.attackTime = 1
    /\ ~envelope.active
    /\ envelope.currentValue \in 1..999

----------------------------------------------------------------------------
(* DelayEffect on its own (Delay.cpp): process() sample by sample, with     *)
(* setDelayTime, setModDepth and setRepitchRate called at any point of it.  *)
(* Times are in thousandths of a second and sample counts in thousandths    *)
(* of a sample, so that delayTime * sampleRate needs no division.           *)

\* DelayEffect: flutterDepth(0.001f)
FLUTTER_DEPTH == 1

\* std::sin of a modulation phase: the model takes the extremes, zero and
\* the values half way (the rates of both modulations can be set, and the
\* phases run through every sample of a second).
SineValues == {-1000, -707, 0, 707, 1000}

\* What the setters are called with: below the range, above the range
DelayTimeInputs == {0, 9000}
ModDepthInputs == {-5, 50}
RepitchInputs == {-500, 2000}

\* How a float result that is zero in thousandths came out: as zero or
\* above ("exact"), or a little under zero, which lerpRead wraps to a
\* position a little under maxDelaySamples ("under") that the float
\* addition can round to maxDelaySamples itself ("rounded").
FloatOutcomes == {"exact", "under", "rounded"}

DelayUnchanged ==
    UNCHANGED <<paramVars, outputVars, engineVars, playerVars, voiceRest,
                releaseProgress, freshPlay, momentary, envelope, hostVars,
                panelVars>>

\* static_cast<int> and the division of ints: truncation toward zero
TruncDiv(a, b) == IF a >= 0 THEN a \div b ELSE -((-a) \div b)

\* process(): the slew of currentDelaySamples toward the target
Slew(current, target, slewRate) ==
    IF slewRate = Infinity
      THEN target
      ELSE LET diff == target - current
           IN  IF diff > slewRate THEN current + slewRate
               ELSE IF -diff > slewRate THEN current - slewRate
               ELSE target

\* process(): currentDelaySamples + modSamples + flutterSamples, clamped to
\* [1, maxDelaySamples - 2]
TotalDelaySamples(current, modDepth, mod, flutter) ==
    clamp(current + RoundDiv(modDepth * DelaySampleRate * mod, 1000)
                  + RoundDiv(FLUTTER_DEPTH * DelaySampleRate * flutter, 1000),
          1000, (maxDelaySamples - 2) * 1000)

\* lerpRead without its wrap
ReadPosAsIs(readPos) == readPos

\* lerpRead: if (readPos < 0) readPos += maxDelaySamples
WrapReadPos(readPos) ==
    IF readPos < 0 THEN readPos + maxDelaySamples * 1000 ELSE readPos

\* lerpRead: readPosInt, from the write cursor and the delay
ReadPosInt(writePos, delaySamples, fl) ==
    LET readPos == writePos * 1000 - delaySamples
    IN  IF readPos = 0 /\ fl = "under" THEN maxDelaySamples - 1
        ELSE IF readPos = 0 /\ fl = "rounded" THEN maxDelaySamples
        ELSE TruncDiv(WrapReadPos(readPos), 1000)

\* lerpRead: idx0 and idx1
lerpRead(writePos, delaySamples, fl) ==
    LET readPosInt == ReadPosInt(writePos, delaySamples, fl)
    IN  << CppRem(readPosInt, maxDelaySamples),
           CppRem(readPosInt + 1, maxDelaySamples) >>

\* process(): float targetDelaySamples = delayTime * sampleRate, before the
\* loop
DelayProcessBegins ==
    /\ delay.i = DelayFrames
    /\ delay' = [delay EXCEPT
                    !.i = 0,
                    !.targetDelaySamples = delay.delayTime * DelaySampleRate]
    /\ DelayUnchanged

\* process(): one pass of the loop
DelayProcessSample ==
    /\ delay.i < DelayFrames
    /\ \E mod \in SineValues, flutter \in SineValues, fl \in FloatOutcomes :
          LET current == Slew(delay.currentDelaySamples,
                              delay.targetDelaySamples, delay.slewRate)
              total == TotalDelaySamples(current, delay.modDepth, mod,
                                         flutter)
              idx == lerpRead(delay.writePos, total, fl)
          IN  delay' = [delay EXCEPT
                  !.currentDelaySamples = current,
                  !.modPhase = IF @ + 1 >= DelaySampleRate THEN 0 ELSE @ + 1,
                  !.flutterPhase =
                      IF @ + 1 >= DelaySampleRate THEN 0 ELSE @ + 1,
                  !.idx0 = idx[1],
                  !.idx1 = idx[2],
                  !.writePos = CppRem(@ + 1, maxDelaySamples),
                  !.i = @ + 1]
    /\ DelayUnchanged

\* DelayEffect::setDelayTime: std::clamp(timeSeconds, 0.001f, 2.0f)
DelaySetDelayTime ==
    /\ \E t \in DelayTimeInputs :
          delay' = [delay EXCEPT !.delayTime = setDelayTime(t)]
    /\ DelayUnchanged

\* DelayEffect::setModDepth: std::clamp(depth, 0.0f, 0.01f)
DelaySetModDepth ==
    /\ \E depth \in ModDepthInputs :
          delay' = [delay EXCEPT !.modDepth = clamp(depth, 0, 10)]
    /\ DelayUnchanged

\* DelayEffect::setRepitchRate: std::clamp(rate, 0.0f, 1.0f), then
\* slewRate = calculateSlewRate()
DelaySetRepitchRate ==
    /\ \E rate \in RepitchInputs :
          LET r == clamp(rate, 0, 1000)
          IN  delay' = [delay EXCEPT !.repitchRate = r,
                                     !.slewRate = calculateSlewRate(r)]
    /\ DelayUnchanged

InitDelay ==
    /\ par = InitPar
    /\ nCalls = 0
    /\ InitOutputIdle
    /\ InitEngineIdle

NextDelay ==
    \/ DelayProcessBegins
    \/ DelayProcessSample
    \/ DelaySetDelayTime
    \/ DelaySetModDepth
    \/ DelaySetRepitchRate

SpecDelay == InitDelay /\ [][NextDelay]_vars

BufferIndices == 0..(maxDelaySamples - 1)

\* C38: the delay never accesses memory outside its circular buffer: after
\* any number of samples and any sequence of setDelayTime, setModDepth and
\* setRepitchRate calls, the write cursor and both interpolation read
\* indices are within [0, maxDelaySamples).
C38_IndicesInsideBuffer ==
    /\ delay.writePos \in BufferIndices
    /\ delay.idx0 \in BufferIndices
    /\ delay.idx1 \in BufferIndices

\* With the longest delay time and the deepest modulation set, a read
\* interpolated between the last sample of the buffer and the first.
C38_Witness ==
    /\ delay.delayTime = 2000
    /\ delay.modDepth = 10
    /\ delay.idx0 = maxDelaySamples - 1
    /\ delay.idx1 = 0

----------------------------------------------------------------------------
(* The process's start-up (main.cpp) and the audio thread of SpecOutput    *)

\* C39: before it processes its first buffer, the real-time audio thread
\* has requested that its memory pages be locked (main's mlockall of the
\* current and future pages of the process, made before the thread exists)
\* and has flush-to-zero in effect for its own arithmetic.
C39_LockedAndFlushedBeforeFirstBuffer ==
    (lpc = "buffer" \/ totalBuffers > 0)
        => mlockRequested /\ flushToZero["audio"]

\* The audio thread has processed its first buffer.
C39_Witness ==
    /\ totalBuffers = 1
    /\ mlockRequested
    /\ flushToZero["audio"]

============================================================================
